---- MODULE Spec2Model ----
(***************************************************************************)
(* Model of the description parser and type resolver of                    *)
(* gramiojs/schema-parser (src/src/parsers/sentence.ts, types.ts).         *)
(*                                                                         *)
(* Representation of text.  A JavaScript string is a sequence of symbols.  *)
(* A symbol is either one significant character (space, comma, dot, a      *)
(* quote character, a parenthesis, a hyphen, a digit) or an opaque run of  *)
(* letters such as "always".  No letter-run symbol contains a character    *)
(* that the code inspects individually; the plural ending "es" is always   *)
(* spelled as the symbol "es" so that endsWith("es") and slice(0, -1) can  *)
(* be computed.                                                            *)
(*                                                                         *)
(* Representation of HTML.  An HTML string is a sequence of items: a text  *)
(* item carries one symbol, an element item is a whole inline element      *)
(* (<a>, <em>, <strong>, <code>, <img>) with its text and attributes.      *)
(* cheerio.load is modelled by Load, which merges adjacent text items      *)
(* into text nodes.                                                        *)
(***************************************************************************)
EXTENDS Integers, Sequences, FiniteSets, TLC

\* The input under construction (the description HTML, the type cell, the
\* Required column, the parsed section, the arguments of toCustomSchema),
\* the last operation and the value it returned.
VARIABLES docDescription, docType, docRequired, docSection, docInput, result, op

vars == <<docDescription, docType, docRequired, docSection, docInput, result, op>>

(***************************************************************************)
(* Optional values: undefined is the empty sequence.                       *)
(***************************************************************************)
None == <<>>

Some(v) == <<v>>

IsSome(o) == Len(o) > 0

(***************************************************************************)
(* Character classes of the symbols.                                       *)
(***************************************************************************)
WhiteSpace == {" "}

\* The ASCII quote and the curly quotes U+201C ("ldquo") and U+201D ("rdquo").
QUOTE_CHARS == {"\"", "ldquo", "rdquo"}

Digits == {"0", "1", "2", "3", "4", "5", "6", "7", "8", "9"}

DigitValue(d) ==
  CASE d = "0" -> 0 [] d = "1" -> 1 [] d = "2" -> 2 [] d = "3" -> 3
    [] d = "4" -> 4 [] d = "5" -> 5 [] d = "6" -> 6 [] d = "7" -> 7
    [] d = "8" -> 8 [] d = "9" -> 9

\* String.prototype.toLowerCase on one symbol.
ToLowerSym(s) ==
  CASE s = "Always" -> "always"
    [] s = "Array" -> "array"
    [] s = "Of" -> "of"
    [] s = "Optional" -> "optional"
    [] s = "Returns" -> "returns"
    [] s = "True" -> "true"
    [] s = "False" -> "false"
    [] s = "Yes" -> "yes"
    [] s = "Is" -> "is"
    [] s = "Returned" -> "returned"
    [] s = "An" -> "an"
    [] s = "The" -> "the"
    [] s = "Message" -> "message"
    [] s = "Messag" -> "messag"
    [] s = "User" -> "user"
    [] s = "Foo" -> "foo"
    [] s = "Bar" -> "bar"
    [] s = "Int" -> "int"
    [] s = "Integer" -> "integer"
    [] s = "String" -> "string"
    [] s = "Boolean" -> "boolean"
    [] s = "On" -> "on"
    [] s = "Objects" -> "objects"
    [] s = "Object" -> "object"
    [] s = "Defaults" -> "defaults"
    [] s = "HTML" -> "html"
    [] s = "ISO" -> "iso"
    [] s = "More" -> "more"
    [] s = "Sending" -> "sending"
    [] s = "Files" -> "files"
    [] s = "Float" -> "float"
    [] s = "Values" -> "values"
    [] s = "Baz" -> "baz"
    [] s = "One" -> "one"
    [] s = "Can" -> "can"
    [] s = "Choose" -> "choose"
    [] s = "Telegram" -> "telegram"
    [] s = "Gifts" -> "gifts"
    [] OTHER -> s

ToLower(t) == [i \in 1..Len(t) |-> ToLowerSym(t[i])]

\* first === first.toUpperCase() && first !== first.toLowerCase()
UpperLed(s) == ToLowerSym(s) # s

RECURSIVE Concat(_)
\* Array.prototype.join("") of a sequence of strings.
Concat(ts) == IF ts = <<>> THEN <<>> ELSE Head(ts) \o Concat(Tail(ts))

RECURSIVE JoinSpace(_)
\* Array.prototype.join(" ").
JoinSpace(ts) ==
  IF ts = <<>> THEN <<>>
  ELSE IF Len(ts) = 1 THEN ts[1]
  ELSE ts[1] \o <<" ">> \o JoinSpace(Tail(ts))

RECURSIVE TrimStart(_)
TrimStart(t) ==
  IF t # <<>> /\ t[1] \in WhiteSpace THEN TrimStart(Tail(t)) ELSE t

RECURSIVE TrimEnd(_)
TrimEnd(t) ==
  IF t # <<>> /\ t[Len(t)] \in WhiteSpace
  THEN TrimEnd(SubSeq(t, 1, Len(t) - 1)) ELSE t

\* String.prototype.trim
Trim(t) == TrimEnd(TrimStart(t))

\* Array.prototype.slice(from) with a 0-based start index.
SliceFrom(s, from) == SubSeq(s, from + 1, Len(s))

\* String.prototype.includes for a needle given as symbols.
Includes(t, needle) ==
  \E i \in 1..(Len(t) - Len(needle) + 1) :
    SubSeq(t, i, i + Len(needle) - 1) = needle

RECURSIVE DecimalValue(_)
DecimalValue(t) ==
  IF t = <<>> THEN 0
  ELSE 10 * DecimalValue(SubSeq(t, 1, Len(t) - 1)) + DigitValue(t[Len(t)])

\* A JavaScript number: a value, or NaN.
Num(v) == [nan |-> FALSE, val |-> v]

NaN == [nan |-> TRUE, val |-> 0]

\* Number(string): whitespace is trimmed, "" is 0, an optionally signed
\* run of digits is its decimal value, anything else is NaN.
Number(t) ==
  LET s == Trim(t)
      signed == s # <<>> /\ s[1] \in {"-", "+"}
      body == IF signed THEN Tail(s) ELSE s
  IN IF s = <<>> THEN Num(0)
     ELSE IF body # <<>> /\ \A i \in 1..Len(body) : body[i] \in Digits
     THEN Num(IF s[1] = "-" THEN 0 - DecimalValue(body) ELSE DecimalValue(body))
     ELSE NaN

(***************************************************************************)
(* HTML items and the DOM.                                                 *)
(***************************************************************************)
\* One character (symbol) of text.
Chr(s) == [tag |-> "#text", text |-> <<s>>, href |-> <<>>, alt |-> <<>>, cls |-> ""]

\* <a href=h>t</a>
A(t, h) == [tag |-> "a", text |-> t, href |-> h, alt |-> <<>>, cls |-> ""]

\* <em>t</em>, <strong>t</strong>, <code>t</code>
El(tag, t) == [tag |-> tag, text |-> t, href |-> <<>>, alt |-> <<>>, cls |-> ""]

\* <img class=c alt=a>
Img(a, c) == [tag |-> "img", text |-> <<>>, href |-> <<>>, alt |-> a, cls |-> c]

\* The items of a plain text.
Text(t) == [i \in 1..Len(t) |-> Chr(t[i])]

RECURSIVE Load(_)
\* cheerio.load: the child nodes of the body; adjacent text is one node.
Load(html) ==
  IF Len(html) < 2 THEN html
  ELSE LET rest == Load(Tail(html))
       IN IF html[1].tag = "#text" /\ rest[1].tag = "#text"
          THEN <<[rest[1] EXCEPT !.text = html[1].text \o @]>> \o Tail(rest)
          ELSE <<html[1]>> \o rest

\* $.text(): the text content of the document.
DocText(html) == Concat([i \in 1..Len(html) |-> html[i].text])

(***************************************************************************)
(* sentence.ts: Parts and the tokenizer.                                   *)
(***************************************************************************)
partNew(inner) == [inner |-> inner, hasQuotes |-> FALSE, kind |-> "word", href |-> <<>>]

partLink(inner, href) == [inner |-> inner, hasQuotes |-> FALSE, kind |-> "link", href |-> href]

partItalic(inner) == [inner |-> inner, hasQuotes |-> FALSE, kind |-> "italic", href |-> <<>>]

partBold(inner) == [inner |-> inner, hasQuotes |-> FALSE, kind |-> "bold", href |-> <<>>]

partCode(inner) == [inner |-> inner, hasQuotes |-> FALSE, kind |-> "code", href |-> <<>>]

\* A word run that takes commas in.
IsWordChar_comma(s) ==
  s \notin (WhiteSpace \cup QUOTE_CHARS \cup {".", "(", ")"})

\* [^,\s."()] and no curly quote: the characters of a word run.
IsWordChar(s) ==
  s \notin (WhiteSpace \cup QUOTE_CHARS \cup {",", ".", "(", ")"})

RECURSIVE WordEnd(_, _)
\* Last index of the maximal word run that starts at index i.
WordEnd(text, i) ==
  IF i < Len(text) /\ IsWordChar(text[i + 1]) THEN WordEnd(text, i + 1) ELSE i

RECURSIVE tokenizeFrom(_, _)
tokenizeFrom(text, i) ==
  IF i > Len(text) THEN <<>>
  ELSE LET c == text[i]
       IN IF c = "." THEN <<[kind |-> "dot", text |-> <<".">>]>> \o tokenizeFrom(text, i + 1)
          ELSE IF c \in QUOTE_CHARS
          THEN <<[kind |-> "quote", text |-> <<c>>]>> \o tokenizeFrom(text, i + 1)
          ELSE IF c = "("
          THEN <<[kind |-> "lparen", text |-> <<"(">>]>> \o tokenizeFrom(text, i + 1)
          ELSE IF c = ")"
          THEN <<[kind |-> "rparen", text |-> <<")">>]>> \o tokenizeFrom(text, i + 1)
          ELSE IF IsWordChar(c)
          THEN LET j == WordEnd(text, i)
               IN <<[kind |-> "word", text |-> SubSeq(text, i, j)]>>
                    \o tokenizeFrom(text, j + 1)
          ELSE tokenizeFrom(text, i + 1)

tokenize(text) == tokenizeFrom(text, 1)

nextQuoteState(state) ==
  CASE state = "none" -> "left"
    [] state = "left" -> "right"
    [] state = "right" -> "none"

(***************************************************************************)
(* sentence.ts: parseDescriptionToSentences.  The closure state is the     *)
(* record st = [sentences, parts, quote, quotePartStart, paren].           *)
(***************************************************************************)
\* A finalizer that also pushes a sentence without Parts.
finalizeSentence_keepsEmpty(st) ==
  [st EXCEPT !.sentences = Append(@, st.parts), !.parts = <<>>]

finalizeSentence(st) ==
  IF Len(st.parts) > 0
  THEN [st EXCEPT !.sentences = Append(@, st.parts), !.parts = <<>>]
  ELSE st

collapseQuotedParts(st) ==
  LET start == IF st.quotePartStart > Len(st.parts) THEN Len(st.parts)
               ELSE st.quotePartStart
      quotedParts == SliceFrom(st.parts, start)
      combined == JoinSpace([i \in 1..Len(quotedParts) |-> quotedParts[i].inner])
  IN [st EXCEPT !.parts = Append(SubSeq(st.parts, 1, start),
                                 [inner |-> combined, hasQuotes |-> TRUE,
                                  kind |-> "word", href |-> <<>>])]

\* A guard that lets a period end the sentence inside a quote.
dotEndsSentence_ignoresQuote(st) == ~st.paren

\* `if (!paren && quote !== "left")` of case "dot"
dotEndsSentence(st) == ~st.paren /\ st.quote # "left"

processToken(st, token) ==
  CASE token.kind = "lparen" -> [st EXCEPT !.paren = TRUE]
    [] token.kind = "rparen" -> [st EXCEPT !.paren = FALSE]
    [] token.kind = "word" ->
         IF ~st.paren THEN [st EXCEPT !.parts = Append(@, partNew(token.text))]
         ELSE st
    [] token.kind = "dot" ->
         IF dotEndsSentence(st) THEN finalizeSentence(st) ELSE st
    [] token.kind = "quote" ->
         IF st.paren THEN st
         ELSE LET q == nextQuoteState(st.quote)
              IN IF q = "left"
                 THEN [st EXCEPT !.quote = q, !.quotePartStart = Len(st.parts)]
                 ELSE IF q = "right"
                 THEN [collapseQuotedParts(st) EXCEPT !.quote = nextQuoteState(q)]
                 ELSE [st EXCEPT !.quote = q]

RECURSIVE processTokens(_, _)
processTokens(st, tokens) ==
  IF tokens = <<>> THEN st
  ELSE processTokens(processToken(st, Head(tokens)), Tail(tokens))

processTextNode(st, text) == processTokens(st, tokenize(text))

\* The sentences of an <li> whose content is text: a parse of its own, with
\* its own quote and parenthesis state.
liSentences(text) ==
  finalizeSentence(processTextNode([sentences |-> <<>>, parts |-> <<>>, quote |-> "none",
                                    quotePartStart |-> 0, paren |-> FALSE],
                                   text)).sentences

processNode(st, node) ==
  IF node.tag = "#text" THEN processTextNode(st, node.text)
  ELSE IF st.paren THEN st
  ELSE LET text == Trim(node.text)
       IN CASE node.tag = "a" ->
                 IF text # <<>>
                 THEN [st EXCEPT !.parts = Append(@, partLink(text, node.href))]
                 ELSE st
            [] node.tag = "em" ->
                 IF text # <<>>
                 THEN [st EXCEPT !.parts = Append(@, partItalic(text))]
                 ELSE st
            [] node.tag \in {"strong", "b"} ->
                 IF text # <<>>
                 THEN [st EXCEPT !.parts = Append(@, partBold(text))]
                 ELSE st
            [] node.tag = "code" ->
                 IF text # <<>>
                 THEN [st EXCEPT !.parts = Append(@, partCode(text))]
                 ELSE st
            [] node.tag = "img" ->
                 IF node.alt # <<>>
                 THEN [st EXCEPT !.parts =
                         Append(@, [inner |-> node.alt,
                                    hasQuotes |-> (st.quote = "left"),
                                    kind |-> "word", href |-> <<>>])]
                 ELSE st
            [] node.tag = "li" ->
                 [finalizeSentence(st) EXCEPT !.sentences = @ \o liSentences(node.text)]
            [] OTHER -> st

RECURSIVE processNodes(_, _)
processNodes(st, nodes) ==
  IF nodes = <<>> THEN st
  ELSE processNodes(processNode(st, Head(nodes)), Tail(nodes))

parseDescriptionToSentences(html) ==
  LET st0 == [sentences |-> <<>>, parts |-> <<>>, quote |-> "none",
              quotePartStart |-> 0, paren |-> FALSE]
  IN finalizeSentence(processNodes(st0, Load(html))).sentences

(***************************************************************************)
(* sentence.ts: the pattern system.                                        *)
(***************************************************************************)
\* word(w): w is the text of the word, as symbols.
word(w) == [type |-> "word", word |-> w, kind |-> ""]

kind(k) == [type |-> "kind", word |-> <<>>, kind |-> k]

quotes == [type |-> "quotes", word |-> <<>>, kind |-> ""]

pattern(parts, offset, exclude) ==
  [parts |-> parts, offset |-> offset, exclude |-> exclude]

\* A matcher that compares words without regard to case.
matchesPart_ignoreCase(search, part) ==
  CASE search.type = "word" -> ToLower(part.inner) = ToLower(search.word)
    [] search.type = "kind" -> part.kind = search.kind
    [] search.type = "quotes" -> part.hasQuotes

matchesPart(search, part) ==
  CASE search.type = "word" -> part.inner = search.word
    [] search.type = "kind" -> part.kind = search.kind
    [] search.type = "quotes" -> part.hasQuotes

getPatterns(patternType) ==
  CASE patternType = "ReturnType" ->
         << pattern(<<word(<<"Returns">>), word(<<"the">>), word(<<"bot", "'", "s">>), word(<<"Telegram">>)>>, 0, TRUE),
            pattern(<<word(<<"Returns">>), word(<<"the">>), word(<<"list">>), word(<<"of">>)>>, 0, TRUE),
            pattern(<<word(<<"Returns">>), word(<<"the">>), word(<<"amount">>), word(<<"of">>)>>, 0, TRUE),
            pattern(<<word(<<"On">>), word(<<"success">>)>>, 0, FALSE),
            pattern(<<word(<<"Returns">>)>>, 0, FALSE),
            pattern(<<word(<<"returns">>)>>, 0, FALSE),
            pattern(<<word(<<"An">>)>>, 0, FALSE),
            pattern(<<word(<<"is">>), word(<<"returned">>)>>, -3, FALSE) >>
    [] patternType = "Default" ->
         << pattern(<<word(<<"Defaults">>), word(<<"to">>)>>, 0, FALSE),
            pattern(<<word(<<"defaults">>), word(<<"to">>)>>, 0, TRUE),
            pattern(<<word(<<"defaults">>), word(<<"to">>)>>, 0, FALSE),
            pattern(<<word(<<"must">>), word(<<"be">>), kind("italic")>>, -1, FALSE),
            pattern(<<word(<<"always">>), quotes>>, -1, FALSE) >>
    [] patternType = "MinMax" ->
         << pattern(<<word(<<"Values">>), word(<<"between">>)>>, 0, FALSE),
            pattern(<<word(<<"characters">>)>>, -2, FALSE) >>
    [] patternType = "OneOf" ->
         << pattern(<<word(<<"either">>)>>, 0, FALSE),
            pattern(<<word(<<"One">>), word(<<"of">>)>>, 0, FALSE),
            pattern(<<word(<<"one">>), word(<<"of">>)>>, 0, FALSE),
            pattern(<<word(<<"Can">>), word(<<"be">>)>>, 0, FALSE),
            pattern(<<word(<<"can">>), word(<<"be">>), quotes>>, -1, FALSE),
            pattern(<<quotes, word(<<"or">>), quotes>>, -3, FALSE),
            pattern(<<word(<<"Choose">>), word(<<"one">>)>>, 0, FALSE) >>

\* The window of searchPattern at 0-based position i of the sentence matches.
WindowMatches(searchPattern, sentence, i) ==
  \A j \in 1..Len(searchPattern.parts) :
    matchesPart(searchPattern.parts[j], sentence[i + j])

\* The set of 0-based positions at which searchPattern matches.
MatchPositions(searchPattern, sentence) ==
  {i \in 0..(Len(sentence) - Len(searchPattern.parts)) :
     WindowMatches(searchPattern, sentence, i)}

Min(S) == CHOOSE x \in S : \A y \in S : x <= y

Max2(a, b) == IF a >= b THEN a ELSE b

\* A capture that starts right after the window, whatever the offset.
captureStart_noOffset(i, windowSize, offset) == i + windowSize

\* Math.max(0, i + windowSize + searchPattern.offset)
captureStart(i, windowSize, offset) == Max2(0, i + windowSize + offset)

\* A matcher for which no pattern excludes.
isExclude_never(searchPattern) == FALSE

\* `if (searchPattern.exclude)`
isExclude(searchPattern) == searchPattern.exclude

RECURSIVE matchSentence(_, _, _)
\* The inner loops of matchPattern for one sentence, from pattern k on:
\* the outcome is "excluded", a result, or neither.
matchSentence(patterns, sentence, k) ==
  IF k > Len(patterns) THEN [excluded |-> FALSE, result |-> None]
  ELSE LET searchPattern == patterns[k]
           windowSize == Len(searchPattern.parts)
           pos == MatchPositions(searchPattern, sentence)
       IN IF windowSize > Len(sentence) \/ pos = {}
          THEN matchSentence(patterns, sentence, k + 1)
          ELSE IF isExclude(searchPattern)
          THEN [excluded |-> TRUE, result |-> None]
          ELSE LET startIdx == captureStart(Min(pos), windowSize, searchPattern.offset)
               IN [excluded |-> FALSE, result |-> Some(SliceFrom(sentence, startIdx))]

\* A matcher that gives up at the first sentence that has no result.
matchPatternFrom_firstSentence(patterns, sentences, n) ==
  IF n > Len(sentences) THEN None
  ELSE matchSentence(patterns, sentences[n], 1).result

RECURSIVE matchPatternFrom(_, _, _)
matchPatternFrom(patterns, sentences, n) ==
  IF n > Len(sentences) THEN None
  ELSE LET r == matchSentence(patterns, sentences[n], 1)
       IN IF r.excluded THEN matchPatternFrom(patterns, sentences, n + 1)
          \* `if (result)`: an empty slice is an array, hence truthy.
          ELSE IF IsSome(r.result) THEN r.result
          ELSE matchPatternFrom(patterns, sentences, n + 1)

matchPattern(patternType, sentences) ==
  matchPatternFrom(getPatterns(patternType), sentences, 1)

(***************************************************************************)
(* sentence.ts: the extractors.                                            *)
(***************************************************************************)
\* `if (!result || result.length === 0) return undefined; return result[0].inner`
firstInner(r) ==
  IF ~IsSome(r) \/ Len(r[1]) = 0 THEN None ELSE Some(r[1][1].inner)

extractDefault(sentences) == firstInner(matchPattern("Default", sentences))

RECURSIVE Split(_, _)
\* String.prototype.split(sep) for a one-symbol separator.
Split(t, sep) ==
  IF \A i \in 1..Len(t) : t[i] # sep THEN <<t>>
  ELSE LET i == Min({k \in 1..Len(t) : t[k] = sep})
       IN <<SubSeq(t, 1, i - 1)>> \o Split(SubSeq(t, i + 1, Len(t)), sep)

\* A range that accepts an empty piece.
rangeOf_keepsEmpty(parts) ==
  IF Len(parts) < 2 THEN None
  ELSE Some([min |-> Trim(parts[1]), max |-> Trim(parts[2])])

\* The {min, max} of the hyphen-separated pieces of the captured text.
rangeOf(parts) ==
  IF Len(parts) < 2 THEN None
  ELSE IF Trim(parts[1]) = <<>> \/ Trim(parts[2]) = <<>> THEN None
  ELSE Some([min |-> Trim(parts[1]), max |-> Trim(parts[2])])

\* extractMinMax once matchPattern has returned value, the text of the
\* first captured Part, if any.
minMaxOf(value) ==
  IF ~IsSome(value) THEN None ELSE rangeOf(Split(value[1], "-"))

extractMinMax(sentences) == minMaxOf(firstInner(matchPattern("MinMax", sentences)))

RECURSIVE ToDigits(_)
\* String(n) for a natural number.
ToDigits(n) ==
  LET d == CHOOSE c \in Digits : DigitValue(c) = n % 10
  IN IF n < 10 THEN <<d>> ELSE Append(ToDigits(n \div 10), d)

\* /^(\d+)\s*\*\s*(\d+)$/ : the product, or the text itself.
tryEvalSimpleExpr(expr) ==
  LET stars == {i \in 1..Len(expr) : expr[i] = "*"}
  IN IF Cardinality(stars) # 1 THEN expr
     ELSE LET i == Min(stars)
              l == TrimEnd(SubSeq(expr, 1, i - 1))
              r == TrimStart(SubSeq(expr, i + 1, Len(expr)))
              isNum(t) == t # <<>> /\ \A k \in 1..Len(t) : t[k] \in Digits
          IN IF isNum(l) /\ isNum(r)
             THEN ToDigits(DecimalValue(l) * DecimalValue(r))
             ELSE expr

isValuePart(part) ==
  \/ part.hasQuotes
  \/ part.kind = "italic"
  \/ part.kind = "code"
  \/ (part.inner # <<>> /\ \A i \in 1..Len(part.inner) : part.inner[i] \in Digits)

\* A value that is always the text of the Part.
partToValue_text(part) == part.inner

partToValue(part) ==
  IF part.kind = "code" THEN tryEvalSimpleExpr(part.inner) ELSE part.inner

RECURSIVE valueParts(_)
\* sentence.filter(isValuePart)
valueParts(s) ==
  IF s = <<>> THEN <<>>
  ELSE (IF isValuePart(Head(s)) THEN <<Head(s)>> ELSE <<>>) \o valueParts(Tail(s))

RECURSIVE Dedup(_)
\* Insertion-ordered Set: the first occurrence of each value is kept.
Dedup(s) ==
  IF s = <<>> THEN <<>>
  ELSE LET init == Dedup(SubSeq(s, 1, Len(s) - 1))
           last == s[Len(s)]
       IN IF \E i \in 1..Len(init) : init[i] = last THEN init ELSE Append(init, last)

\* A collection from the offset slice only, without the whole sentence.
oneOfValuesAt_sliceOnly(searchPattern, sentence, i) ==
  LET startIdx == Max2(0, i + Len(searchPattern.parts) + searchPattern.offset)
      slice == valueParts(SliceFrom(sentence, startIdx))
  IN Dedup([k \in 1..Len(slice) |-> partToValue(slice[k])])

\* The values extractOneOf collects for a match of searchPattern at position i.
oneOfValuesAt(searchPattern, sentence, i) ==
  LET startIdx == Max2(0, i + Len(searchPattern.parts) + searchPattern.offset)
      slice == valueParts(SliceFrom(sentence, startIdx))
      values == [k \in 1..Len(slice) |-> partToValue(slice[k])]
      full == valueParts(sentence)
      fullValues == [k \in 1..Len(full) |-> partToValue(full[k])]
  IN Dedup(IF Len(fullValues) > Len(values) THEN fullValues ELSE values)

\* The matches <<k, i>> (pattern k of the OneOf set at position i) of one
\* sentence that collect at least one value.
oneOfHits(sentence) ==
  LET patterns == getPatterns("OneOf")
  IN {h \in (1..Len(patterns)) \X (0..Len(sentence)) :
        /\ h[2] <= Len(sentence) - Len(patterns[h[1]].parts)
        /\ WindowMatches(patterns[h[1]], sentence, h[2])
        /\ Len(oneOfValuesAt(patterns[h[1]], sentence, h[2])) > 0}

\* The first hit in loop order: patterns in list order, then positions.
firstHit(hits) ==
  CHOOSE h \in hits :
    \A g \in hits : h[1] < g[1] \/ (h[1] = g[1] /\ h[2] <= g[2])

RECURSIVE extractOneOfFrom(_, _)
\* The loop over the sentences of extractOneOf, from sentence n on.
extractOneOfFrom(sentences, n) ==
  IF n > Len(sentences) THEN None
  ELSE IF oneOfHits(sentences[n]) = {} THEN extractOneOfFrom(sentences, n + 1)
  ELSE LET h == firstHit(oneOfHits(sentences[n]))
       IN Some(oneOfValuesAt(getPatterns("OneOf")[h[1]], sentences[n], h[2]))

extractOneOf(sentences) == extractOneOfFrom(sentences, 1)

extractReturnType(sentences) == matchPattern("ReturnType", sentences)

\* extractConst is imported by types.ts from sentence.ts, which does not
\* define it; its tests (tests/utils.test.ts, "Const Extraction") fix it as
\* the italic Part that follows the words "must be".
RECURSIVE extractConstFrom(_, _)
extractConstFrom(sentences, n) ==
  IF n > Len(sentences) THEN None
  ELSE LET p == pattern(<<word(<<"must">>), word(<<"be">>), kind("italic")>>, -1, FALSE)
           pos == MatchPositions(p, sentences[n])
       IN IF pos = {} THEN extractConstFrom(sentences, n + 1)
          ELSE Some(sentences[n][Min(pos) + 3].inner)

extractConst(sentences) == extractConstFrom(sentences, 1)

(***************************************************************************)
(* sentence.ts: extractTypeFromParts.                                      *)
(***************************************************************************)
\* A stripping that drops the whole ending "es".
stripPluralEnding_dropsEs(name) ==
  IF name # <<>> /\ name[Len(name)] = "es" THEN SubSeq(name, 1, Len(name) - 1) ELSE name

\* name.endsWith("es") ? name.slice(0, -1) : name
stripPluralEnding(name) ==
  IF name # <<>> /\ name[Len(name)] = "es"
  THEN SubSeq(name, 1, Len(name) - 1) \o <<"e">>
  ELSE name

isFirstLetterUppercase(s) == s # <<>> /\ UpperLed(s[1])

\* A single node that loses the href of its Part.
single_noHref(part) ==
  [kind |-> "single", name |-> stripPluralEnding(part.inner), href |-> <<>>]

single(part) ==
  [kind |-> "single", name |-> stripPluralEnding(part.inner), href |-> part.href]

RECURSIVE upperParts(_)
\* The Parts, other than "otherwise", that start with an uppercase letter.
upperParts(parts) ==
  IF parts = <<>> THEN <<>>
  ELSE (IF Head(parts).inner # <<"otherwise">> /\ isFirstLetterUppercase(Head(parts).inner)
        THEN <<Head(parts)>> ELSE <<>>) \o upperParts(Tail(parts))

RECURSIVE extractTypeFromParts(_)
extractTypeFromParts(parts) ==
  IF parts = <<>> THEN None
  ELSE IF \E i \in 1..Len(parts) : parts[i].inner = <<"otherwise">>
  THEN LET ups == upperParts(parts)
           types == [i \in 1..Len(ups) |-> single(ups[i])]
       IN IF Len(types) > 0 THEN Some([kind |-> "or", variants |-> types]) ELSE None
  ELSE LET found == {i \in 1..Len(parts) : isFirstLetterUppercase(parts[i].inner)}
       IN IF found = {} THEN None
          ELSE LET pos == Min(found)
                   part == parts[pos]
                   name == stripPluralEnding(part.inner)
                   rest == SubSeq(parts, pos + 1, Len(parts))
                   afterOf == IF Len(rest) > 0 /\ rest[1].inner = <<"of">>
                              THEN Tail(rest) ELSE rest
                   prev3 == SubSeq(parts, pos - 3, pos - 1)
                   precededByArray ==
                     /\ pos >= 4
                     /\ \/ /\ prev3[1].inner = <<"an">>
                           /\ prev3[2].inner = <<"array">>
                           /\ prev3[3].inner = <<"of">>
                        \/ /\ prev3[1].inner \in {<<"a">>, <<"the">>}
                           /\ prev3[2].inner = <<"list">>
                           /\ prev3[3].inner = <<"of">>
               IN IF name = <<"Array">>
                  THEN LET innerType == extractTypeFromParts(afterOf)
                       IN IF IsSome(innerType)
                          THEN Some([kind |-> "array", inner |-> innerType[1]])
                          ELSE None
                  ELSE LET innerType == IF precededByArray
                                        THEN extractTypeFromParts(SubSeq(parts, pos, Len(parts)))
                                        ELSE None
                       IN IF IsSome(innerType)
                          THEN Some([kind |-> "array", inner |-> innerType[1]])
                          ELSE Some(single(part))

(***************************************************************************)
(* types.ts: Fields.  A facet that is absent or undefined is None.         *)
(***************************************************************************)
FieldInteger(min, max, default, enum) ==
  [type |-> "integer", min |-> min, max |-> max, default |-> default, enum |-> enum]

FieldFloat(min, max, default, enum) ==
  [type |-> "float", min |-> min, max |-> max, default |-> default, enum |-> enum]

FieldString(enum, const, default, minLen, maxLen) ==
  [type |-> "string", enum |-> enum, const |-> const, default |-> default,
   minLen |-> minLen, maxLen |-> maxLen]

BareString == FieldString(None, None, None, None, None)

FieldBoolean(const) == [type |-> "boolean", const |-> const]

FieldArray(arrayOf) == [type |-> "array", arrayOf |-> arrayOf]

FieldReference(name, anchor) ==
  [type |-> "reference", reference |-> [name |-> name, anchor |-> anchor]]

FieldOneOf(variants) == [type |-> "one_of", variants |-> variants]

uniqueArray(array) == Dedup(array)

(***************************************************************************)
(* types.ts: detectEnum.                                                   *)
(***************************************************************************)
RECURSIVE emojiAlts(_)
\* $("img.emoji[alt]") mapped to the alt attribute, empty values dropped.
emojiAlts(html) ==
  IF html = <<>> THEN <<>>
  ELSE (IF Head(html).tag = "img" /\ Head(html).cls = "emoji" /\ Head(html).alt # <<>>
        THEN <<Head(html).alt>> ELSE <<>>) \o emojiAlts(Tail(html))

RECURSIVE stripTags(_)
\* .replace(/<img[^>]+>/g, "").replace(/<[^>]+>/g, " ")
stripTags(html) ==
  IF html = <<>> THEN <<>>
  ELSE LET h == Head(html)
       IN (IF h.tag = "#text" THEN h.text
           ELSE IF h.tag = "img" THEN <<>>
           ELSE <<" ">> \o h.text \o <<" ">>) \o stripTags(Tail(html))

RECURSIVE collapseSpaces(_)
\* .replace(/\s+/g, " ")
collapseSpaces(t) ==
  IF t = <<>> THEN <<>>
  ELSE IF t[1] \in WhiteSpace
  THEN <<" ">> \o collapseSpaces(TrimStart(t))
  ELSE <<t[1]>> \o collapseSpaces(Tail(t))

cleanDescription(html) == Trim(collapseSpaces(stripTags(html)))

RECURSIVE quotedMatches(_, _)
\* matchAll(/(["'])(.*?)\1/g): the second group of every match, from index i.
quotedMatches(t, i) ==
  IF i > Len(t) THEN <<>>
  ELSE IF t[i] \notin {"\"", "'"} THEN quotedMatches(t, i + 1)
  ELSE LET closing == {j \in (i + 1)..Len(t) : t[j] = t[i]}
       IN IF closing = {} THEN quotedMatches(t, i + 1)
          ELSE <<SubSeq(t, i + 1, Min(closing) - 1)>> \o quotedMatches(t, Min(closing) + 1)

RECURSIVE numbersOf(_)
\* oneOfValues.map(Number).filter((n) => !Number.isNaN(n))
numbersOf(values) ==
  IF values = <<>> THEN <<>>
  ELSE (IF Number(Head(values)).nan THEN <<>> ELSE <<Number(Head(values))>>)
         \o numbersOf(Tail(values))

\* `return nums.length > 1 ? uniqueArray(nums) : undefined`
numericEnum(nums) == IF Len(nums) > 1 THEN Some(uniqueArray(nums)) ELSE None

\* The three stages of detectEnum, given the emoji alt texts, the result of
\* extractOneOf and the quoted substrings of the cleaned description.
enumOf(alts, oneOfValues, quoted, type) ==
  IF Len(alts) > 0 /\ type # "number" THEN Some(uniqueArray(alts))
  ELSE IF IsSome(oneOfValues) /\ Len(oneOfValues[1]) > 1
  THEN IF type = "number" THEN numericEnum(numbersOf(oneOfValues[1]))
       ELSE Some(uniqueArray(oneOfValues[1]))
  ELSE IF Len(quoted) > 1 THEN Some(uniqueArray(quoted))
  ELSE None

detectEnum(html, type) ==
  IF html = <<>> THEN None
  ELSE enumOf(emojiAlts(html), extractOneOf(parseDescriptionToSentences(html)),
              quotedMatches(cleanDescription(html), 1), type)

(***************************************************************************)
(* types.ts: links of a type text, detectConst, parseFieldDetailsSentence. *)
(***************************************************************************)
RECURSIVE links(_)
\* $("a")
links(html) ==
  IF html = <<>> THEN <<>>
  ELSE (IF Head(html).tag = "a" THEN <<Head(html)>> ELSE <<>>) \o links(Tail(html))

\* The result is [text, href]; href is None when there is no link or the
\* link has no href.
extractTypeAndRef(html) ==
  LET as == links(html)
  IN IF Len(as) > 0 THEN [text |-> Trim(as[1].text), href |-> as[1].href]
     ELSE [text |-> Trim(DocText(html)), href |-> None]

RECURSIVE linkRefs(_)
linkRefs(as) ==
  IF as = <<>> THEN <<>>
  ELSE (IF Trim(Head(as).text) # <<>>
        THEN <<[text |-> Text(Trim(Head(as).text)), href |-> Head(as).href]>>
        ELSE <<>>) \o linkRefs(Tail(as))

extractAllTypeRefs(html) ==
  LET as == links(html)
  IN IF Len(as) <= 1 THEN <<>> ELSE linkRefs(as)

RECURSIVE skipSpaces(_, _)
\* The index after the whitespace run that starts at index i.
skipSpaces(t, i) ==
  IF i <= Len(t) /\ t[i] \in WhiteSpace THEN skipSpaces(t, i + 1) ELSE i

RECURSIVE quoteRunEnd(_, _)
\* The index after the run of non-quote characters that starts at index i.
quoteRunEnd(t, i) ==
  IF i <= Len(t) /\ t[i] \notin QUOTE_CHARS THEN quoteRunEnd(t, i + 1) ELSE i

\* /always\s+["ldquo rdquo]([^"ldquo rdquo]+)["ldquo rdquo]/i on $.text()
detectConst(html) ==
  LET t == DocText(html)
      found == {i \in 1..Len(t) :
                  /\ ToLowerSym(t[i]) = "always"
                  /\ skipSpaces(t, i + 1) > i + 1
                  /\ LET q == skipSpaces(t, i + 1)
                         e == quoteRunEnd(t, q + 1)
                     IN q <= Len(t) /\ t[q] \in QUOTE_CHARS /\ e > q + 1 /\ e <= Len(t)}
  IN IF found = {} THEN None
     ELSE LET q == skipSpaces(t, Min(found) + 1)
          IN Some(SubSeq(t, q + 1, quoteRunEnd(t, q + 1) - 1))

\* The object literal returned by parseFieldDetailsSentence.
fieldDetails(defaultStr, minMax) ==
  [min |-> IF IsSome(minMax) THEN Some(Number(minMax[1].min)) ELSE None,
   max |-> IF IsSome(minMax) THEN Some(Number(minMax[1].max)) ELSE None,
   default |-> IF IsSome(defaultStr) THEN Some(Number(defaultStr[1])) ELSE None]

sentenceDetails(sentences) ==
  fieldDetails(extractDefault(sentences), extractMinMax(sentences))

parseFieldDetailsSentence(html) ==
  sentenceDetails(parseDescriptionToSentences(html))

(***************************************************************************)
(* types.ts: parseTypeText.  typeInfo is [text, href]: text is an HTML     *)
(* string, href is None when absent.  An absent description is <<>>.       *)
(***************************************************************************)
\* typeInfo.text.match(/^Array of (.+)$/i)
arrayMatch(text) ==
  /\ Len(text) >= 5
  /\ \A i \in 1..4 : text[i].tag = "#text"
  /\ <<ToLowerSym(text[1].text[1]), text[2].text[1],
       ToLowerSym(text[3].text[1]), text[4].text[1]>> = <<"array", " ", "of", " ">>

\* The " or " separator starts at index i of the type text.
orAt(text, i) ==
  /\ i + 2 <= Len(text)
  /\ \A k \in i..(i + 2) : text[k].tag = "#text"
  /\ <<text[i].text[1], text[i + 1].text[1], text[i + 2].text[1]>> = <<" ", "or", " ">>

\* typeInfo.text.includes(" or ")
includesOr(text) == \E i \in 1..Len(text) : orAt(text, i)

RECURSIVE splitOr(_)
\* typeInfo.text.split(" or ")
splitOr(text) ==
  IF ~includesOr(text) THEN <<text>>
  ELSE LET i == Min({k \in 1..Len(text) : orAt(text, k)})
       IN <<SubSeq(text, 1, i - 1)>> \o splitOr(SubSeq(text, i + 3, Len(text)))

RECURSIVE trimHtml(_)
\* part.trim() on an HTML string
trimHtml(html) ==
  IF html # <<>> /\ html[1].tag = "#text" /\ html[1].text[1] \in WhiteSpace
  THEN trimHtml(Tail(html))
  ELSE IF html # <<>> /\ html[Len(html)].tag = "#text"
          /\ html[Len(html)].text[1] \in WhiteSpace
  THEN trimHtml(SubSeq(html, 1, Len(html) - 1))
  ELSE html

\* `x !== undefined && !Number.isNaN(x) && { facet: x }`
definedNumber(n) == IF IsSome(n) /\ ~n[1].nan THEN n ELSE None

\* `enumValues?.length ? enumValues : undefined`
nonEmptyEnum(enumValues) ==
  IF IsSome(enumValues) /\ Len(enumValues[1]) > 0 THEN enumValues ELSE None

\* The object literal of `case "Integer"` and `case "Float"`.
numericFacets(type, details, enumValues) ==
  [type |-> type,
   min |-> definedNumber(details.min),
   max |-> definedNumber(details.max),
   default |-> definedNumber(details.default),
   enum |-> nonEmptyEnum(enumValues)]

\* `case "Integer"` and `case "Float"` of parseTypeText.
numericField(type, description) ==
  numericFacets(type, parseFieldDetailsSentence(description),
                IF description # <<>> THEN detectEnum(description, "number") ELSE None)

\* `minMax.min && { minLen: Number(minMax.min) }`
lengthBound(minMax, bound) ==
  IF IsSome(minMax) /\ minMax[1][bound] # <<>> THEN Some(Number(minMax[1][bound]))
  ELSE None

\* The object literal of `case "String"`.
stringFacets(enumValues, constValue, defaultStr, mustBeConst, minMax) ==
  FieldString(nonEmptyEnum(enumValues),
              IF IsSome(constValue) THEN constValue ELSE mustBeConst,
              defaultStr,
              lengthBound(minMax, "min"),
              lengthBound(minMax, "max"))

stringFromSentences(enumValues, constValue, sentences) ==
  stringFacets(enumValues, constValue, extractDefault(sentences),
               extractConst(sentences), extractMinMax(sentences))

\* `case "String"` of parseTypeText.
stringField(description) ==
  stringFromSentences(
    IF description # <<>> THEN detectEnum(description, "string") ELSE None,
    IF description # <<>> THEN detectConst(description) ELSE None,
    IF description # <<>> THEN parseDescriptionToSentences(description) ELSE <<>>)

\* `switch (text.trim())` of parseTypeText.
keywordField(text, href, description) ==
  CASE text = <<"Integer">> -> numericField("integer", description)
    [] text \in {<<"Float">>, <<"Float", " ", "number">>} ->
         numericField("float", description)
    [] text = <<"String">> -> stringField(description)
    [] text = <<"Boolean">> -> FieldBoolean(None)
    [] text = <<"True">> -> FieldBoolean(Some(TRUE))
    [] text = <<"False">> -> FieldBoolean(Some(FALSE))
    [] OTHER -> IF href # <<>> THEN FieldReference(text, href)
                ELSE BareString

\* A union that resolves the text of a link and drops its href.
unionVariantInfo_textOnly(part) ==
  [text |-> Text(extractTypeAndRef(part).text), href |-> None]

\* The variant of one " or "-separated part.
unionVariantInfo(part) ==
  LET ref == extractTypeAndRef(part)
  IN IF ref.href # <<>> THEN [text |-> Text(ref.text), href |-> ref.href]
     ELSE [text |-> part, href |-> None]

\* A resolver that ignores the href of the type cell.
finalHref_linkOnly(ref, typeInfo) == ref.href

\* const finalHref = href || typeInfo.href
finalHref(ref, typeInfo) == IF ref.href # <<>> THEN ref.href ELSE typeInfo.href

\* The order of the tests of parseTypeText: the array pattern, then the
\* " or " test, then the keyword switch.
typeBranch_unionFirst(text) ==
  IF includesOr(text) THEN "union"
  ELSE IF arrayMatch(text) THEN "array"
  ELSE "keyword"

typeBranch(text) ==
  IF arrayMatch(text) THEN "array"
  ELSE IF includesOr(text) THEN "union"
  ELSE "keyword"

\* The TypeInfos the union branch recurses on.
unionInfos(split) == [i \in 1..Len(split) |-> unionVariantInfo(trimHtml(split[i]))]

\* const { text, href } = extractTypeAndRef(typeInfo.text) and the switch.
resolveKeyword(ref, typeInfo, description) ==
  keywordField(Trim(ref.text), finalHref(ref, typeInfo), description)

\* A recursion that hands the description of the cell down to the members.
memberDescription_inherited(description) == description

\* The description the recursive calls of parseTypeText receive: the calls
\* parseTypeText(t), parseTypeText({ text: innerTypeText }) and
\* parseTypeText({ text, href }) pass no description.
memberDescription(description) == <<>>

RECURSIVE parseTypeTexts(_, _)

RECURSIVE parseTypeText(_, _)
parseTypeText(typeInfo, description) ==
  IF typeBranch(typeInfo.text) = "array"
  THEN IF Len(extractAllTypeRefs(SliceFrom(typeInfo.text, 4))) > 1
       THEN FieldArray(FieldOneOf(parseTypeTexts(
              extractAllTypeRefs(SliceFrom(typeInfo.text, 4)),
              memberDescription(description))))
       ELSE FieldArray(parseTypeText(
              [text |-> SliceFrom(typeInfo.text, 4), href |-> None],
              memberDescription(description)))
  ELSE IF typeBranch(typeInfo.text) = "union"
  THEN FieldOneOf(parseTypeTexts(unionInfos(splitOr(typeInfo.text)),
                                 memberDescription(description)))
  ELSE resolveKeyword(extractTypeAndRef(typeInfo.text), typeInfo, description)

\* infos.map((t) => parseTypeText(t)), under the description the mapped
\* call receives.
parseTypeTexts(infos, description) ==
  IF infos = <<>> THEN <<>>
  ELSE <<parseTypeText(Head(infos), description)>>
         \o parseTypeTexts(Tail(infos), description)

(***************************************************************************)
(* types.ts: tableRowToField.  tableRow is [name, type, required,          *)
(* description]; required is None when the table has no such column.  The  *)
(* Markdown rendering of the description (turndown) is not part of the     *)
(* model.                                                                  *)
(***************************************************************************)
\* text.toLowerCase().includes(w) for a one-symbol word w
includesLower(t, w) == \E i \in 1..Len(t) : ToLowerSym(t[i]) = w

\* The `required` of the row, before the default is taken into account.
rowRequired(tableRow) ==
  IF IsSome(tableRow.required) /\ includesLower(tableRow.required[1], "yes") THEN TRUE
  ELSE IF IsSome(tableRow.required) /\ includesLower(tableRow.required[1], "optional")
  THEN FALSE
  ELSE LET t == DocText(tableRow.description)
       IN ~(t # <<>> /\ ToLowerSym(t[1]) = "optional")

\* Variant of fieldRequired that ignores the default.
fieldRequired_keepsColumn(typeField, req) == req

\* `required:` of the object literal of tableRowToField.
fieldRequired(typeField, req) ==
  IF "default" \in DOMAIN typeField /\ IsSome(typeField.default) THEN FALSE ELSE req

\* The object literal `field` of tableRowToField.
keyedField(typeField, tableRow) ==
  [key |-> tableRow.name,
   required |-> fieldRequired(typeField, rowRequired(tableRow))] @@ typeField

\* The rewrites that follow the object literal, on the text of the
\* description.
rewriteField(field, descText) ==
     IF Includes(descText, <<"ISO", " ", "4", "2", "1", "7">>) /\ field.type = "string"
     THEN [type |-> "reference",
           reference |-> [name |-> <<"Currencies">>, anchor |-> <<"#", "currencies">>]]
            @@ field
     ELSE IF /\ field.type = "string"
             /\ Includes(descText, <<"More", " ", "information", " ", "on", " ",
                                     "Sending", " ", "Files">>)
     THEN [key |-> field.key, required |-> field.required, type |-> "one_of",
           variants |-> <<FieldReference(<<"InputFile">>, <<"#", "inputfile">>),
                          BareString>>]
     ELSE IF /\ field.type = "string"
             /\ Includes(descText, <<"after", " ", "entities", " ", "parsing">>)
     THEN [semanticType |-> "formattable"] @@ field
     ELSE IF /\ field.type = "array" /\ field.arrayOf.type = "string"
             /\ Includes(descText, <<"update", " ", "type">>)
     THEN [field EXCEPT !.arrayOf = [semanticType |-> "updateType"] @@ @]
     ELSE field

tableRowToField(tableRow) ==
  rewriteField(keyedField(parseTypeText(tableRow.type, tableRow.description), tableRow),
               DocText(tableRow.description))

(***************************************************************************)
(* types.ts: extractedTypeToField and resolveReturnType.                   *)
(***************************************************************************)
\* name.replace(/ objects?/i, "")
stripObject(name) ==
  LET found == {i \in 1..(Len(name) - 1) :
                  name[i] = " " /\ ToLowerSym(name[i + 1]) \in {"object", "objects"}}
  IN IF found = {} THEN name
     ELSE SubSeq(name, 1, Min(found) - 1) \o SubSeq(name, Min(found) + 2, Len(name))

singleToField(extracted) ==
  LET name == extracted.name
  IN CASE name = <<"True">> -> FieldBoolean(Some(TRUE))
       [] name = <<"False">> -> FieldBoolean(Some(FALSE))
       [] name \in {<<"Int">>, <<"Integer">>} -> FieldInteger(None, None, None, None)
       [] name = <<"String">> -> BareString
       [] name = <<"Boolean">> -> FieldBoolean(None)
       [] OTHER ->
            FieldReference(stripObject(name),
                           IF extracted.href # <<>> THEN extracted.href
                           ELSE <<"#">> \o stripObject(ToLower(name)))

RECURSIVE extractedTypeToField(_)
extractedTypeToField(extracted) ==
  CASE extracted.kind = "single" -> singleToField(extracted)
    [] extracted.kind = "array" ->
         FieldArray(extractedTypeToField(extracted.inner))
    [] extracted.kind = "or" ->
         IF Len(extracted.variants) = 0 THEN BareString
         ELSE FieldOneOf([i \in 1..Len(extracted.variants) |->
                            extractedTypeToField(extracted.variants[i])])

\* /Returns\s+(an\s+|the\s+)?(True|False)/i
returnsBooleanMatch(t) ==
  \E i \in 1..Len(t) :
    /\ ToLowerSym(t[i]) = "returns"
    /\ skipSpaces(t, i + 1) > i + 1
    /\ LET j == skipSpaces(t, i + 1)
           k == skipSpaces(t, j + 1)
       IN \/ j <= Len(t) /\ ToLowerSym(t[j]) \in {"true", "false"}
          \/ /\ j <= Len(t) /\ ToLowerSym(t[j]) \in {"an", "the"}
             /\ k > j + 1
             /\ k <= Len(t) /\ ToLowerSym(t[k]) \in {"true", "false"}

\* /(True|False)\s+is\s+returned/i
booleanIsReturnedMatch(t) ==
  \E i \in 1..Len(t) :
    /\ ToLowerSym(t[i]) \in {"true", "false"}
    /\ skipSpaces(t, i + 1) > i + 1
    /\ LET j == skipSpaces(t, i + 1)
           k == skipSpaces(t, j + 1)
       IN /\ j <= Len(t) /\ ToLowerSym(t[j]) = "is"
          /\ k > j + 1
          /\ k <= Len(t) /\ ToLowerSym(t[k]) = "returned"

\* $('a[href^="#"]').first()
directLinks(html) ==
  LET as == links(html)
  IN {i \in 1..Len(as) : as[i].href # <<>> /\ as[i].href[1] = "#"}

\* `if (extracted) return extractedTypeToField(extracted)`
extractedField(extracted) ==
  IF IsSome(extracted) THEN Some(extractedTypeToField(extracted[1])) ELSE None

\* The sentence-based part of resolveReturnType, given the result of
\* extractReturnType: a Field, or None to fall through.
returnPartsField(returnParts) ==
  IF ~IsSome(returnParts) \/ Len(returnParts[1]) = 0 THEN None
  ELSE IF \E i \in 1..Len(returnParts[1]) :
            returnParts[1][i].inner \in {<<"Int">>, <<"Integer">>}
  THEN Some(FieldInteger(None, None, None, None))
  ELSE extractedField(extractTypeFromParts(returnParts[1]))

\* The fallback of resolveReturnType: the first link to an anchor.
directLinkField(as, direct) ==
  IF direct # {} THEN FieldReference(Trim(as[Min(direct)].text), as[Min(direct)].href)
  ELSE BareString

\* resolveReturnType on the text t of the description, the sentence-based
\* result and the fallback.
returnField(t, fromSentences, fallback) ==
  IF /\ ~(\E i \in 1..Len(t) : t[i] = "otherwise")
     /\ (returnsBooleanMatch(t) \/ booleanIsReturnedMatch(t))
  THEN FieldBoolean(Some(\E i \in 1..Len(t) : t[i] = "True"))
  ELSE IF IsSome(fromSentences) THEN fromSentences[1]
  ELSE fallback

resolveReturnType(html) ==
  returnField(DocText(html),
              returnPartsField(extractReturnType(parseDescriptionToSentences(html))),
              directLinkField(links(html), directLinks(html)))

(***************************************************************************)
(* The state machine.  An input is built phrase by phrase: docDescription  *)
(* and docType.text are sequences of phrases, and the HTML string is their *)
(* concatenation.  An operation of types.ts is then applied to the input   *)
(* and its return value is kept in result.                                 *)
(***************************************************************************)
MaxPhrases == 3

NoType == [text |-> <<>>, href |-> None]

\* Type cells that hold one keyword.
TypeInteger == [text |-> <<Text(<<"Integer">>)>>, href |-> None]

TypeFloat == [text |-> <<Text(<<"Float", " ", "number">>)>>, href |-> None]

TypeString == [text |-> <<Text(<<"String">>)>>, href |-> None]

\* The TypeInfo and the TableRow of the input.
typeInfoOf(t) == [text |-> Concat(t.text), href |-> t.href]

tableRowOf(t, req, d) ==
  [name |-> <<"key">>, type |-> typeInfoOf(t), required |-> req,
   description |-> Concat(d)]

\* The Required column: absent (object tables), "Yes" or "Optional".
RequiredColumn == {None, Some(<<"Yes">>), Some(<<"Optional">>)}

\* A ParsedSection that is neither a method nor a type: toCustomSchema
\* passes over it.
UnknownSection ==
  [type |-> "Unknown", title |-> <<"Recent", " ", "changes">>,
   anchor |-> <<"#", "recent-changes">>, description |-> <<>>, table |-> <<>>,
   oneOf |-> <<>>]

\* The arguments of toCustomSchema before any section is parsed: no
\* section, no currencies.
NoInput == [sections |-> <<>>, currencies |-> None]

Init ==
  /\ docDescription = <<>>
  /\ docType = NoType
  /\ docRequired = None
  /\ docSection = UnknownSection
  /\ docInput = NoInput
  /\ result = None
  /\ op = "input"

\* Phrases of descriptions that state a const, a default or optionality.
ConstPhrases ==
  { Text(<<"always", " ">>),
    Text(<<"\"", "creator", "\"", " ">>),
    Text(<<"Defaults", " ", "to", " ">>),
    Text(<<"7", " ">>),
    Text(<<"Optional", ".", " ">>),
    Text(<<"must", " ", "be", " ">>),
    <<El("em", <<"HTML">>)>>,
    Text(<<"ISO", " ", "4", "2", "1", "7", " ">>),
    Text(<<"More", " ", "information", " ", "on", " ", "Sending", " ", "Files">>) }

AddConstPhrase ==
  /\ op = "input"
  /\ Len(docDescription) < MaxPhrases
  /\ \E p \in ConstPhrases : docDescription' = Append(docDescription, p)
  /\ UNCHANGED <<docInput, docSection, docType, docRequired, result, op>>

\* parseTypeText(typeInfo, description) on a keyword type cell.
ParseKeywordType ==
  /\ op = "input"
  /\ \E t \in {TypeInteger, TypeFloat, TypeString} :
       /\ docType' = t
       /\ result' = parseTypeText(typeInfoOf(t), Concat(docDescription))
  /\ op' = "parseTypeText"
  /\ UNCHANGED <<docInput, docSection, docDescription, docRequired>>

\* tableRowToField(tableRow) on a row with a keyword type cell.
TableRowToField ==
  /\ op = "input"
  /\ \E t \in {TypeInteger, TypeFloat, TypeString}, req \in RequiredColumn :
       /\ docType' = t
       /\ docRequired' = req
       /\ result' = tableRowToField(tableRowOf(t, req, docDescription))
  /\ op' = "tableRowToField"
  /\ UNCHANGED <<docInput, docSection, docDescription>>

Next == AddConstPhrase \/ ParseKeywordType \/ TableRowToField

Spec == Init /\ [][Next]_vars

(***************************************************************************)
(* Properties of the const, default and required facets (Spec).            *)
(***************************************************************************)
HasFacet(f, name) == name \in DOMAIN f /\ IsSome(f[name])

\* C1: the String Field returned by parseTypeText never has both const
\* and default set to a defined value.
C1_ConstExcludesDefault ==
  (op = "parseTypeText" /\ result.type = "string")
    => ~(HasFacet(result, "const") /\ HasFacet(result, "default"))

\* C2: tableRowToField on a String row whose description contains
\* always "X" and that is not marked optional returns a Field with
\* const = X and required = TRUE.
C2_ConstStaysRequired ==
  LET d == Concat(docDescription)
      t == DocText(d)
      notOptional ==
        /\ docRequired # Some(<<"Optional">>)
        /\ ~(t # <<>> /\ ToLowerSym(t[1]) = "optional")
  IN (op = "tableRowToField" /\ docType = TypeString
        /\ IsSome(detectConst(d)) /\ notOptional)
       => /\ HasFacet(result, "const")
          /\ result.const = detectConst(d)
          /\ result.required = TRUE

\* C3: whenever the Field returned by tableRowToField has a defined
\* default, its required is FALSE, whatever the Required column or the
\* description says.
C3_DefaultImpliesOptional ==
  (op = "tableRowToField" /\ HasFacet(result, "default"))
    => result.required = FALSE

\* C3 witness: a row whose Required column is "Yes" and whose description
\* states a default.
C3_Witness ==
  /\ op = "tableRowToField"
  /\ docRequired = Some(<<"Yes">>)
  /\ HasFacet(result, "default")
  /\ result.required = FALSE

(***************************************************************************)
(* SpecFacet: parseTypeText on a keyword type cell, with descriptions that *)
(* state ranges, enumerations and emoji.                                   *)
(***************************************************************************)
MaxFacetPhrases == 3

\* <img class="emoji" alt="(dice)">
EmojiImage == <<Img(<<"dice">>, "emoji")>>

\* The same image between straight quotes.
QuotedEmojiImage == Text(<<"\"">>) \o EmojiImage \o Text(<<"\"", " ">>)

EmojiPhrases == {EmojiImage, QuotedEmojiImage}

FacetPhrases ==
  EmojiPhrases \cup
  { Text(<<"Values", " ", "between", " ">>),
    Text(<<"1", "-", "5", " ">>),
    Text(<<"well", "-", "known", " ">>),
    Text(<<"characters", " ">>),
    Text(<<"one", " ", "of", " ">>),
    Text(<<"\"", "7", "\"", ",", " ">>),
    Text(<<"\"", "8", "\"", ",", " ">>),
    Text(<<"Defaults", " ", "to", " ">>) }

AddFacetPhrase ==
  /\ op = "input"
  /\ Len(docDescription) < MaxFacetPhrases
  /\ \E p \in FacetPhrases : docDescription' = Append(docDescription, p)
  /\ UNCHANGED <<docInput, docSection, docType, docRequired, result, op>>

\* parseTypeText(typeInfo, description) on a keyword type cell.
ParseFacetType ==
  /\ op = "input"
  /\ \E t \in {TypeInteger, TypeFloat, TypeString} :
       /\ docType' = t
       /\ result' = parseTypeText(typeInfoOf(t), Concat(docDescription))
  /\ op' = "parseTypeText"
  /\ UNCHANGED <<docInput, docSection, docDescription, docRequired>>

NextFacet == AddFacetPhrase \/ ParseFacetType

SpecFacet == Init /\ [][NextFacet]_vars

\* C4: no Field returned by parseTypeText carries NaN in min, max, default,
\* minLen or maxLen, for Integer, Float and String alike.
C4_NoNaNFacet ==
  op = "parseTypeText" =>
    /\ result.type \in {"integer", "float"} =>
          \A name \in {"min", "max", "default"} :
            HasFacet(result, name) => ~result[name][1].nan
    /\ result.type = "string" =>
          \A name \in {"minLen", "maxLen"} :
            HasFacet(result, name) => ~result[name][1].nan

\* C5: whenever parseTypeText sets enum on a string, integer or float
\* Field, the enum has at least two values.
C5_EnumHasTwoValues ==
  (op = "parseTypeText" /\ HasFacet(result, "enum"))
    => Len(result.enum[1]) >= 2

\* C6: for Integer and Float type text, a description whose only enum
\* candidates are emoji images, quoted or not, yields a Field without enum.
C6_NoEmojiEnumOnNumbers ==
  (/\ op = "parseTypeText"
   /\ docType \in {TypeInteger, TypeFloat}
   /\ docDescription # <<>>
   /\ \A i \in 1..Len(docDescription) : docDescription[i] \in EmojiPhrases)
    => ~HasFacet(result, "enum")

(***************************************************************************)
(* SpecType: parseTypeText on type cells built from array prefixes,        *)
(* keywords, plain names, links and " or ", with and without an href on    *)
(* the cell.                                                               *)
(***************************************************************************)
MaxTypePhrases == 4

ArrayOfPhrase == Text(<<"Array", " ", "of", " ">>)

OrPhrase == Text(<<" ", "or", " ">>)

TypePhrases ==
  { ArrayOfPhrase,
    OrPhrase,
    Text(<<"Integer">>),
    Text(<<"Foo">>),
    <<A(<<"Bar">>, <<"#", "bar">>)>>,
    <<A(<<"Baz">>, <<"#", "baz">>)>> }

\* typeInfo.href: absent, or the anchor of the cell.
CellHrefs == {None, <<"#", "foo">>}

AddTypePhrase ==
  /\ op = "input"
  /\ Len(docType.text) < MaxTypePhrases
  /\ \E p \in TypePhrases : docType' = [docType EXCEPT !.text = Append(@, p)]
  /\ UNCHANGED <<docInput, docSection, docDescription, docRequired, result, op>>

\* parseTypeText(typeInfo) on the type cell, without a description.
ResolveTypeCell ==
  /\ op = "input"
  /\ \E h \in CellHrefs :
       /\ docType' = [docType EXCEPT !.href = h]
       /\ result' = parseTypeText(typeInfoOf(docType'), Concat(docDescription))
  /\ op' = "parseTypeText"
  /\ UNCHANGED <<docInput, docSection, docDescription, docRequired>>

NextType == AddTypePhrase \/ ResolveTypeCell

SpecType == Init /\ [][NextType]_vars

Keywords ==
  { <<"Integer">>, <<"Float">>, <<"Float", " ", "number">>, <<"String">>,
    <<"Boolean">>, <<"True">>, <<"False">> }

FieldTypes ==
  {"integer", "float", "string", "boolean", "array", "reference", "one_of"}

\* The text and the href the keyword switch sees for a type text: those of
\* the first link if there is one, else the whole text and the cell's href.
NameOf(text) ==
  IF links(text) # <<>> THEN Trim(links(text)[1].text) ELSE Trim(DocText(text))

HrefOf(text, cellHref) ==
  IF links(text) # <<>> /\ links(text)[1].href # <<>> THEN links(text)[1].href
  ELSE cellHref

\* C7: parseTypeText returns a Field for every input; when the type text is
\* neither an array nor a union nor a keyword, the Field is a reference
\* {name: text, anchor: href} if a link of the text or else the cell gives
\* an href, and the bare string Field otherwise.
C7_FallbackReferenceOrString ==
  op = "parseTypeText" =>
    /\ result.type \in FieldTypes
    /\ LET text == Concat(docType.text)
       IN (~arrayMatch(text) /\ ~includesOr(text) /\ NameOf(text) \notin Keywords)
            => result = IF HrefOf(text, docType.href) # <<>>
                        THEN FieldReference(NameOf(text), HrefOf(text, docType.href))
                        ELSE BareString

\* C7 witness: a plain name in a cell that has an href resolves to a
\* reference to that href.
C7_Witness ==
  /\ op = "parseTypeText"
  /\ docType.text = <<Text(<<"Foo">>)>>
  /\ docType.href # <<>>
  /\ result = FieldReference(<<"Foo">>, docType.href)

\* The number of " or " separators among the phrases of the type cell.
OrPhrases == Cardinality({i \in 1..Len(docType.text) : docType.text[i] = OrPhrase})

\* C8: for type text that is not an array and contains " or ", the result is
\* a one_of with one variant per segment, in order; a variant is a reference
\* only through a link of its own segment, and a segment without a link
\* resolves as it does alone.
C8_UnionVariantPerSegment ==
  LET text == Concat(docType.text)
      segs == splitOr(text)
  IN (op = "parseTypeText" /\ ~arrayMatch(text) /\ includesOr(text))
       => /\ result.type = "one_of"
          /\ Len(result.variants) = OrPhrases + 1
          /\ Len(result.variants) >= 2
          /\ \A i \in 1..Len(result.variants) :
               LET as == links(trimHtml(segs[i]))
                   v == result.variants[i]
               IN /\ v.type = "reference" =>
                       as # <<>> /\ v.reference.anchor = as[1].href
                  /\ as # <<>> =>
                       v = FieldReference(Trim(as[1].text), as[1].href)
                  /\ as = <<>> =>
                       v = parseTypeText([text |-> trimHtml(segs[i]), href |-> None], <<>>)

\* C8 witness: a union of a link and a plain name in a cell that has an
\* href of its own; the plain name gets neither href.
C8_Witness ==
  /\ op = "parseTypeText"
  /\ docType.href # <<>>
  /\ docType.text = <<<<A(<<"Bar">>, <<"#", "bar">>)>>, OrPhrase, Text(<<"Foo">>)>>
  /\ result.type = "one_of"
  /\ Len(result.variants) = 2
  /\ result.variants[1] = FieldReference(<<"Bar">>, <<"#", "bar">>)
  /\ result.variants[2] = BareString

RECURSIVE ArrayPrefixes(_)
\* The number of "Array of " prefixes the phrases of a type cell start with.
ArrayPrefixes(phrases) ==
  IF phrases # <<>> /\ Head(phrases) = ArrayOfPhrase
  THEN 1 + ArrayPrefixes(Tail(phrases))
  ELSE 0

RECURSIVE Nest(_, _)
\* k array Fields around a Field.
Nest(k, field) == IF k = 0 THEN field ELSE FieldArray(Nest(k - 1, field))

\* The type text after the k prefixes, resolved alone.
PeeledField(k) ==
  parseTypeText([text |-> Concat(SubSeq(docType.text, k + 1, Len(docType.text))),
                 href |-> None], <<>>)

\* One reference per link.
LinkReferences(as) ==
  [i \in 1..Len(as) |-> FieldReference(Trim(as[i].text), as[i].href)]

\* C9 as stated: type text made of k "Array of " prefixes followed by T
\* yields k nested array Fields around the resolution of T.
C9_ArrayNesting ==
  LET k == ArrayPrefixes(docType.text)
  IN (op = "parseTypeText" /\ k >= 1 /\ k < Len(docType.text))
       => result = Nest(k, PeeledField(k))

\* C9 amended: when the text after the first prefix holds two or more
\* links, the result is one array of a one_of with one reference per link,
\* whatever k is; otherwise it is k nested arrays around the resolution of T
\* taken alone, so that "Array of X or Y" is an array of a one_of.
C9_ArrayPeeling ==
  LET k == ArrayPrefixes(docType.text)
      as == links(Concat(Tail(docType.text)))
  IN (op = "parseTypeText" /\ k >= 1 /\ k < Len(docType.text))
       => IF Len(as) >= 2
          THEN result = FieldArray(FieldOneOf(LinkReferences(as)))
          ELSE /\ result = Nest(k, PeeledField(k))
               /\ result.type = "array"
               /\ (k = 1 /\ OrPhrases > 0) => result.arrayOf.type = "one_of"

\* C9 witness: "Array of Array of Integer".
C9_Witness ==
  /\ op = "parseTypeText"
  /\ docType.text = <<ArrayOfPhrase, ArrayOfPhrase, Text(<<"Integer">>)>>
  /\ result.type = "array"
  /\ result.arrayOf.type = "array"
  /\ result.arrayOf.arrayOf.type = "integer"

(***************************************************************************)
(* SpecReturn: resolveReturnType on the description of a method.           *)
(***************************************************************************)
MaxReturnPhrases == 4

ReturnPhrases ==
  { Text(<<"Returns", " ">>),
    Text(<<"On", " ", "success", ",", " ">>),
    <<A(<<"Message">>, <<"#", "message">>), Chr(" ")>>,
    Text(<<"otherwise", " ">>),
    Text(<<"True", " ">>),
    Text(<<"False", " ">>),
    Text(<<"Array", " ", "of", " ">>),
    Text(<<"is", " ", "returned", ".", " ">>) }

AddReturnPhrase ==
  /\ op = "input"
  /\ Len(docDescription) < MaxReturnPhrases
  /\ \E p \in ReturnPhrases : docDescription' = Append(docDescription, p)
  /\ UNCHANGED <<docInput, docSection, docType, docRequired, result, op>>

\* resolveReturnType(description)
ResolveReturnType ==
  /\ op = "input"
  /\ result' = resolveReturnType(Concat(docDescription))
  /\ op' = "resolveReturnType"
  /\ UNCHANGED <<docInput, docSection, docDescription, docType, docRequired>>

NextReturn == AddReturnPhrase \/ ResolveReturnType

SpecReturn == Init /\ [][NextReturn]_vars

RECURSIVE OneOfsHaveTwo(_)
\* Every one_of in a Field has at least two variants.
OneOfsHaveTwo(field) ==
  CASE field.type = "one_of" ->
         /\ Len(field.variants) >= 2
         /\ \A i \in 1..Len(field.variants) : OneOfsHaveTwo(field.variants[i])
    [] field.type = "array" -> OneOfsHaveTwo(field.arrayOf)
    [] OTHER -> TRUE

\* C10: every one_of Field produced by resolveReturnType has at least two
\* variants.
C10_OneOfHasTwoVariants ==
  op = "resolveReturnType" => OneOfsHaveTwo(result)

(***************************************************************************)
(* SpecSentence: the functions of sentence.ts on descriptions.  Each       *)
(* function has a vocabulary of its own; a description is built from the   *)
(* phrases of one vocabulary and the function is applied to it.            *)
(***************************************************************************)
MaxSentencePhrases == 4

SentencePhrases ==
  [ extractReturnType |->
      { Text(<<"Returns", " ", "the", " ", "list", " ", "of", " ", "gifts", ".", " ">>),
        Text(<<"Returns", " ", "the", " ", "amount", " ", "of", " ">>),
        Text(<<"Returns", " ">>),
        <<A(<<"Gifts">>, <<"#", "gifts">>), Chr(" ")>>,
        Text(<<"object", ".", " ">>),
        Text(<<"On", " ", "success", ",", " ">>),
        Text(<<"is", " ", "returned", ".", " ">>) },
    parseDescriptionToSentences |->
      { Text(<<"a", " ">>),
        Text(<<"b", ".", " ">>),
        Text(<<".", " ">>),
        Text(<<"(">>),
        Text(<<")", " ">>),
        Text(<<"(", "x", ")", " ">>),
        Text(<<"\"">>),
        <<El("em", <<"y">>)>> },
    extractDefault |->
      { Text(<<"must", " ", "be", " ">>),
        <<El("em", <<"HTML">>), Chr(" ")>>,
        Text(<<"Defaults", " ", "to", " ">>),
        Text(<<"7", ".", " ">>),
        Text(<<"pass", " ">>) },
    extractMinMax |->
      { Text(<<"Values", " ", "between", " ">>),
        Text(<<"1", "-", "5", " ">>),
        Text(<<"-", "5", " ">>),
        <<El("code", <<"1", " ", "-", " ", "5">>), Chr(" ")>>,
        Text(<<"characters", " ">>),
        Text(<<".", " ">>) },
    extractOneOf |->
      { Text(<<"one", " ", "of", " ">>),
        Text(<<"\"", "a", "\"", ",", " ">>),
        Text(<<"6", " ">>),
        <<El("code", <<"2", " ", "*", " ", "3">>), Chr(" ")>>,
        <<El("em", <<"c">>), Chr(" ")>>,
        Text(<<"x", " ">>),
        Text(<<"or", " ">>),
        Text(<<".", " ">>) },
    collapseQuotedParts |->
      { Text(<<"a", " ">>),
        Text(<<"b", " ">>),
        Text(<<"\"">>),
        <<El("li", <<"x">>), Chr("c"), Chr(" ")>>,
        Text(<<".", " ">>),
        <<El("em", <<"y">>)>> },
    extractTypeFromParts |->
      { Text(<<"Array", " ", "of", " ">>),
        Text(<<"Array", " ">>),
        Text(<<"an", " ", "array", " ", "of", " ">>),
        Text(<<"the", " ", "list", " ", "of", " ">>),
        <<A(<<"Messag", "es">>, <<"#", "message">>), Chr(" ")>>,
        Text(<<"True", " ">>),
        Text(<<"otherwise", " ">>),
        Text(<<"objects", " ">>) },
    matchPattern |->
      { Text(<<"Defaults", " ", "to", " ">>),
        Text(<<"defaults", " ", "to", " ">>),
        Text(<<"must", " ", "be", " ">>),
        <<El("em", <<"HTML">>), Chr(" ")>>,
        Text(<<"always", " ">>),
        Text(<<"\"", "x", "\"", " ">>),
        Text(<<"7", " ">>),
        Text(<<".", " ">>) },
    tokenize |->
      { Text(<<"ab">>), Text(<<" ">>), Text(<<",">>), Text(<<".">>),
        Text(<<"(">>), Text(<<")">>), Text(<<"\"">>), Text(<<"ldquo">>) } ]

\* The description is made of phrases of the vocabulary of function f.
InVocabulary(f) ==
  \A i \in 1..Len(docDescription) : docDescription[i] \in SentencePhrases[f]

AddSentencePhrase ==
  /\ op = "input"
  /\ Len(docDescription) < MaxSentencePhrases
  /\ \E f \in DOMAIN SentencePhrases :
       /\ InVocabulary(f)
       /\ \E p \in SentencePhrases[f] : docDescription' = Append(docDescription, p)
  /\ UNCHANGED <<docInput, docSection, docType, docRequired, result, op>>

\* The Parts of the first sentence, if there is one.
firstSentence(sentences) == IF sentences = <<>> THEN <<>> ELSE sentences[1]

\* The function f of sentence.ts on the description.
sentenceFunction(f, html) ==
  CASE f = "extractReturnType" -> extractReturnType(parseDescriptionToSentences(html))
    [] f = "parseDescriptionToSentences" -> parseDescriptionToSentences(html)
    [] f = "extractDefault" -> extractDefault(parseDescriptionToSentences(html))
    [] f = "extractMinMax" -> extractMinMax(parseDescriptionToSentences(html))
    [] f = "extractOneOf" -> extractOneOf(parseDescriptionToSentences(html))
    [] f = "collapseQuotedParts" -> parseDescriptionToSentences(html)
    [] f = "extractTypeFromParts" ->
         extractTypeFromParts(firstSentence(parseDescriptionToSentences(html)))
    [] f = "matchPattern" -> matchPattern("Default", parseDescriptionToSentences(html))
    [] f = "tokenize" -> tokenize(DocText(html))

ApplySentenceFunction ==
  /\ op = "input"
  /\ \E f \in DOMAIN SentencePhrases :
       /\ InVocabulary(f)
       /\ result' = sentenceFunction(f, Concat(docDescription))
       /\ op' = f
  /\ UNCHANGED <<docInput, docSection, docDescription, docType, docRequired>>

NextSentence == AddSentencePhrase \/ ApplySentenceFunction

SpecSentence == Init /\ [][NextSentence]_vars

\* The Sentences of the description.
Sentences == parseDescriptionToSentences(Concat(docDescription))

\* Sentence s holds consecutive Parts whose texts are the words ws.
HoldsWords(s, ws) ==
  \E i \in 0..(Len(s) - Len(ws)) : \A j \in 1..Len(ws) : s[i + j].inner = <<ws[j]>>

\* The phrases that exclude a sentence from return-type matching.
ExcludedSentence(s) ==
  \/ HoldsWords(s, <<"Returns", "the", "list", "of">>)
  \/ HoldsWords(s, <<"Returns", "the", "amount", "of">>)
  \/ \E i \in 0..(Len(s) - 4) :
       /\ s[i + 1].inner = <<"Returns">> /\ s[i + 2].inner = <<"the">>
       /\ s[i + 3].inner = <<"bot", "'", "s">> /\ s[i + 4].inner = <<"Telegram">>

\* The patterns of the ReturnType set that are not exclusions, in order.
GenericReturnPatterns == SubSeq(getPatterns("ReturnType"), 4, 8)

\* The generic patterns that match sentence s.
GenericMatches(s) ==
  {k \in 1..Len(GenericReturnPatterns) : MatchPositions(GenericReturnPatterns[k], s) # {}}

\* The capture of the first generic pattern that matches sentence s.
GenericCapture(s) ==
  LET p == GenericReturnPatterns[Min(GenericMatches(s))]
      i == Min(MatchPositions(p, s)) + Len(p.parts) + p.offset
  IN SubSeq(s, (IF i < 0 THEN 0 ELSE i) + 1, Len(s))

\* The sentences a return type may be taken from.
ReturnCandidates ==
  {n \in 1..Len(Sentences) :
     ~ExcludedSentence(Sentences[n]) /\ GenericMatches(Sentences[n]) # {}}

\* C11: extractReturnType never returns a capture of a sentence that holds
\* one of the excluding phrases; it returns the capture of the first other
\* sentence that has a generic ReturnType match, and undefined when there
\* is none.
C11_ExcludedSentencesSkipped ==
  op = "extractReturnType" =>
    result = IF ReturnCandidates = {} THEN None
             ELSE Some(GenericCapture(Sentences[Min(ReturnCandidates)]))

\* C11 witness: the first sentence is excluded and the capture comes from
\* the second.
C11_Witness ==
  /\ op = "extractReturnType"
  /\ Len(Sentences) >= 2
  /\ ExcludedSentence(Sentences[1])
  /\ ReturnCandidates # {}
  /\ result = Some(GenericCapture(Sentences[2]))

(***************************************************************************)
(* The reading of a description that C12, C13 and C14 refer to: a scan of  *)
(* its characters and inline elements that counts the depth of the        *)
(* parentheses, toggles the quote at each quote character outside them,    *)
(* and collects the words and element texts outside parentheses, sentence  *)
(* by sentence.  A sentence holds a Part once it has a word, an element or *)
(* a closed quote.  In the vocabulary every word is one symbol.            *)
(***************************************************************************)
ScanStart ==
  [depth |-> 0, quote |-> FALSE, nested |-> FALSE, unbalanced |-> FALSE,
   dotOutside |-> FALSE, dotInQuote |-> FALSE, hasPart |-> FALSE,
   sentences |-> <<>>, words |-> <<>>, outside |-> <<>>]

\* The scan after one more item.
ScanItem(prev, item) ==
  LET c == IF item.tag = "#text" THEN item.text[1] ELSE ""
  IN CASE item.tag # "#text" ->
            IF prev.depth = 0 /\ Trim(item.text) # <<>>
            THEN [prev EXCEPT !.words = Append(@, Trim(item.text)),
                              !.outside = Append(@, Trim(item.text)),
                              !.hasPart = TRUE]
            ELSE prev
       [] c = "(" -> [prev EXCEPT !.depth = @ + 1, !.nested = @ \/ prev.depth >= 1]
       [] c = ")" -> IF prev.depth = 0 THEN [prev EXCEPT !.unbalanced = TRUE]
                     ELSE [prev EXCEPT !.depth = @ - 1]
       [] c \in QUOTE_CHARS ->
            IF prev.depth > 0 THEN prev
            ELSE [prev EXCEPT !.quote = ~@, !.hasPart = @ \/ prev.quote]
       [] c = "." ->
            IF prev.depth > 0 THEN prev
            ELSE IF prev.quote THEN [prev EXCEPT !.dotInQuote = TRUE]
            ELSE IF ~prev.hasPart THEN [prev EXCEPT !.dotOutside = TRUE]
            ELSE [prev EXCEPT !.dotOutside = TRUE, !.hasPart = FALSE,
                              !.sentences = Append(@, prev.words), !.words = <<>>]
       [] IsWordChar(c) ->
            IF prev.depth = 0
            THEN [prev EXCEPT !.words = Append(@, <<c>>), !.outside = Append(@, <<c>>),
                              !.hasPart = TRUE]
            ELSE prev
       [] OTHER -> prev

RECURSIVE ScanItems(_, _)
ScanItems(prev, items) ==
  IF items = <<>> THEN prev ELSE ScanItems(ScanItem(prev, Head(items)), Tail(items))

\* The scan of the whole description.
Scan == ScanItems(ScanStart, Concat(docDescription))

\* The sentences the scan expects, each a list of words.
ScanSentences ==
  IF Scan.hasPart THEN Append(Scan.sentences, Scan.words) ELSE Scan.sentences

RECURSIVE FlattenSeq(_)
FlattenSeq(ss) == IF ss = <<>> THEN <<>> ELSE Head(ss) \o FlattenSeq(Tail(ss))

RECURSIVE NonEmpty(_)
NonEmpty(ss) ==
  IF ss = <<>> THEN <<>>
  ELSE (IF Head(ss) = <<>> THEN <<>> ELSE <<Head(ss)>>) \o NonEmpty(Tail(ss))

\* The words of a Sentence: the texts of its Parts, a quoted Part giving the
\* words it joined.
WordsOf(sentence) ==
  FlattenSeq([i \in 1..Len(sentence) |-> NonEmpty(Split(sentence[i].inner, " "))])

C13_ParenthesesElided ==
  (op = "parseDescriptionToSentences" /\ ~Scan.unbalanced /\ Scan.depth = 0)
    => FlattenSeq([n \in 1..Len(result) |-> WordsOf(result[n])]) = Scan.outside

MustBeItalicAt(i) ==
  /\ i < Len(docDescription)
  /\ docDescription[i] = Text(<<"must", " ", "be", " ">>)
  /\ docDescription[i + 1][1].tag = "em"

\* C15: for a description whose only candidate phrase is the words
\* "must be" followed by an italic Part, extractDefault returns undefined.
C15_MustBeIsNotDefault ==
  (/\ op = "extractDefault"
   /\ \E i \in 1..Len(docDescription) : MustBeItalicAt(i)
   /\ \A i \in 1..Len(docDescription) :
        docDescription[i] # Text(<<"Defaults", " ", "to", " ">>))
    => result = None

\* Sentence s holds the words "Values between" or the word "characters".
HoldsMinMaxPhrase(s) ==
  HoldsWords(s, <<"Values", "between">>) \/ HoldsWords(s, <<"characters">>)

\* The 1-based index in s of the first Part of the MinMax capture: the Part
\* right after the first "Values between", else the Part before the first
\* "characters" (that word itself when it opens the sentence); beyond the
\* sentence when nothing follows "Values between".
MinMaxCaptureIndex(s) ==
  IF HoldsWords(s, <<"Values", "between">>)
  THEN Min({i \in 1..Len(s) : i < Len(s) /\ s[i].inner = <<"Values">>
                                /\ s[i + 1].inner = <<"between">>}) + 2
  ELSE LET c == Min({i \in 1..Len(s) : s[i].inner = <<"characters">>})
       IN IF c = 1 THEN 1 ELSE c - 1

\* The range a text states: its first two hyphen-separated pieces, trimmed,
\* when there are two and neither is empty.
RangeIn(text) ==
  LET pieces == Split(text, "-")
  IN IF Len(pieces) >= 2 /\ Trim(pieces[1]) # <<>> /\ Trim(pieces[2]) # <<>>
     THEN Some([min |-> Trim(pieces[1]), max |-> Trim(pieces[2])])
     ELSE None

\* C16: extractMinMax returns {min, max} exactly when the first Part of the
\* MinMax capture of the first sentence that holds a MinMax phrase has a
\* hyphen with non-empty text on both sides; min and max are the trimmed
\* first and second pieces; in every other case it returns undefined.
C16_MinMaxFromFirstCapture ==
  op = "extractMinMax" =>
    LET hits == {n \in 1..Len(Sentences) : HoldsMinMaxPhrase(Sentences[n])}
    IN result =
         IF hits = {} THEN None
         ELSE LET s == Sentences[Min(hits)]
              IN IF MinMaxCaptureIndex(s) > Len(s) THEN None
                 ELSE RangeIn(s[MinMaxCaptureIndex(s)].inner)

\* C16 witness: the Part before "characters" is a code element "1 - 5".
C16_Witness ==
  /\ op = "extractMinMax"
  /\ docDescription = << <<El("code", <<"1", " ", "-", " ", "5">>), Chr(" ")>>,
                          Text(<<"characters", " ">>) >>
  /\ result = Some([min |-> <<"1">>, max |-> <<"5">>])

\* A Part that states a value: quoted, italic, code, or all digits.
ValueLike(part) ==
  \/ part.hasQuotes
  \/ part.kind \in {"italic", "code"}
  \/ (part.inner # <<>> /\ \A i \in 1..Len(part.inner) : part.inner[i] \in Digits)

\* The value a Part states: the decimal product for a code Part of the form
\* <int> * <int>, the text of the Part otherwise.
ValueOf(part) ==
  IF part.kind = "code" THEN tryEvalSimpleExpr(part.inner) ELSE part.inner

RECURSIVE ValuesOf(_)
\* The values of the value-like Parts of a run of Parts, in order.
ValuesOf(parts) ==
  IF parts = <<>> THEN <<>>
  ELSE (IF ValueLike(Head(parts)) THEN <<ValueOf(Head(parts))>> ELSE <<>>)
         \o ValuesOf(Tail(parts))

\* Sentence s matches a pattern of the OneOf set.
HoldsOneOfPhrase(s) ==
  \E k \in 1..Len(getPatterns("OneOf")) : MatchPositions(getPatterns("OneOf")[k], s) # {}

\* C17: extractOneOf returns undefined or a non-empty list without
\* duplicates, in first-seen order, of the values of value-like Parts of one
\* sentence that matches a OneOf pattern; a code Part <int> * <int> gives
\* the product.
C17_OneOfValues ==
  (op = "extractOneOf" /\ result # None) =>
    /\ Len(result[1]) >= 1
    /\ \A i, j \in 1..Len(result[1]) : i # j => result[1][i] # result[1][j]
    /\ \E n \in 1..Len(Sentences) :
         /\ HoldsOneOfPhrase(Sentences[n])
         /\ \E k \in 0..Len(Sentences[n]) :
              result[1] = Dedup(ValuesOf(SliceFrom(Sentences[n], k)))

\* C17 witness: "one of 6 <code>2 * 3</code>": the product equals the digit
\* Part and is listed once.
C17_Witness ==
  /\ op = "extractOneOf"
  /\ docDescription = << Text(<<"one", " ", "of", " ">>), Text(<<"6", " ">>),
                          <<El("code", <<"2", " ", "*", " ", "3">>), Chr(" ")>> >>
  /\ result = Some(<< <<"6">> >>)

\* The characters that give no token: commas and whitespace.
Separators == {",", " "}

\* The token kind of a character that is a token on its own; "" otherwise.
PunctuationKind(c) ==
  CASE c = "." -> "dot"
    [] c \in {"\"", "ldquo", "rdquo"} -> "quote"
    [] c = "(" -> "lparen"
    [] c = ")" -> "rparen"
    [] OTHER -> ""

\* Character i of the text belongs to a word run.
InWordRun(text, i) == text[i] \notin Separators /\ PunctuationKind(text[i]) = ""

\* The positions where a token starts: every punctuation character and the
\* first character of every maximal word run.
TokenStarts(text) ==
  { i \in 1..Len(text) :
      \/ PunctuationKind(text[i]) # ""
      \/ (InWordRun(text, i) /\ (i = 1 \/ ~InWordRun(text, i - 1))) }

\* The token that starts at position i.
TokenAt(text, i) ==
  IF PunctuationKind(text[i]) # ""
  THEN [kind |-> PunctuationKind(text[i]), text |-> <<text[i]>>]
  ELSE LET j == CHOOSE e \in i..Len(text) :
                  /\ \A m \in i..e : InWordRun(text, m)
                  /\ (e = Len(text) \/ ~InWordRun(text, e + 1))
       IN [kind |-> "word", text |-> SubSeq(text, i, j)]

\* C18: tokenize gives, in input order, one dot/quote/lparen/rparen token
\* per '.', quote character, '(' and ')', one word token per maximal run of
\* other characters that are neither commas nor whitespace, and nothing for
\* commas and whitespace; an empty or separator-only input gives no token.
C18_TokensInOrder ==
  op = "tokenize" =>
    LET text == DocText(Concat(docDescription))
        starts == TokenStarts(text)
    IN /\ Len(result) = Cardinality(starts)
       /\ \A i \in starts :
            result[Cardinality({m \in starts : m <= i})] = TokenAt(text, i)
       /\ ((\A i \in 1..Len(text) : text[i] \in Separators) => result = <<>>)

\* C18 witness: "ab,ab." gives two word tokens and a dot token.
C18_Witness ==
  /\ op = "tokenize"
  /\ docDescription = <<Text(<<"ab">>), Text(<<",">>), Text(<<"ab">>), Text(<<".">>)>>
  /\ result = << [kind |-> "word", text |-> <<"ab">>],
                  [kind |-> "word", text |-> <<"ab">>],
                  [kind |-> "dot", text |-> <<".">>] >>

(***************************************************************************)
(* types.ts: maybeFileToSend.  A reference name is one symbol.             *)
(***************************************************************************)
\* The names that start with "Input".
StartsWithInput ==
  {"Input", "InputFile", "InputMedia", "InputMediaAudio", "InputMediaPhoto",
   "InputPollOption", "InputSticker"}

\* name.startsWith("Input")
startsWithInput(name) == name # <<>> /\ name[1] \in StartsWithInput

\* Variant of referenceIsFile without the InputPollOption exception.
referenceIsFile_anyInput(name) == startsWithInput(name)

\* The `reference` branch of maybeFileToSend.
referenceIsFile(name) ==
  IF name = <<"InputPollOption">> THEN FALSE ELSE startsWithInput(name)

RECURSIVE maybeFileToSend(_)
maybeFileToSend(field) ==
  IF field.type = "reference" THEN referenceIsFile(field.reference.name)
  ELSE IF field.type = "array" THEN maybeFileToSend(field.arrayOf)
  ELSE IF field.type = "one_of"
  THEN \E i \in 1..Len(field.variants) : maybeFileToSend(field.variants[i])
  ELSE FALSE

(***************************************************************************)
(* to-custom-schema.ts.  A ParsedSection is [type, title, anchor,          *)
(* description, table, oneOf]; an absent table or oneOf is the empty list. *)
(* The Markdown rendering of the descriptions is not part of the model.    *)
(***************************************************************************)
\* /Markup$|^ReplyKeyboardRemove$|^ForceReply$/
MARKUP_NAMES(title) ==
  \/ (title # <<>> /\ title[Len(title)] = "Markup")
  \/ title \in {<<"ReplyKeyboardRemove">>, <<"ForceReply">>}

\* new Set(fields.map((f) => f.key))
fieldKeys(fields) == {fields[i].key : i \in 1..Len(fields)}

\* Variant of siblingMarks that accepts an _entities sibling in both modes.
siblingMarks_anyMode(key, keys, mode) ==
  (key \o <<"_parse_mode">>) \in keys \/ (key \o <<"_entities">>) \in keys

\* mode === "method" ? hasParseMode || hasEntities : hasParseMode
siblingMarks(key, keys, mode) ==
  IF mode = "method"
  THEN (key \o <<"_parse_mode">>) \in keys \/ (key \o <<"_entities">>) \in keys
  ELSE (key \o <<"_parse_mode">>) \in keys

\* One turn of the loop of applyFormattableSiblings.
markFormattable(field, keys, mode) ==
  IF /\ field.type = "string"
     /\ "semanticType" \notin DOMAIN field
     /\ siblingMarks(field.key, keys, mode)
  THEN [semanticType |-> "formattable"] @@ field
  ELSE field

applyFormattableSiblings(fields, mode) ==
  [i \in 1..Len(fields) |-> markFormattable(fields[i], fieldKeys(fields), mode)]

\* The rows of the table mapped by tableRowToField.
tableFields(table) == [i \in 1..Len(table) |-> tableRowToField(table[i])]

\* The Method pushed for a section of type "Method".
methodOf(section, parameters) ==
  [name |-> section.title,
   anchor |-> section.anchor,
   parameters |-> parameters,
   returns |-> resolveReturnType(section.description),
   hasMultipart |-> \E i \in 1..Len(parameters) : maybeFileToSend(parameters[i])]

\* name and anchor of a pushed object.
objectBasic(section) == [name |-> section.title, anchor |-> section.anchor]

\* The Object pushed for a section of type "Object".
objectOf(section, fields) ==
  IF Len(fields) > 0 /\ MARKUP_NAMES(section.title)
  THEN [type |-> "fields", fields |-> fields, semanticType |-> "markup"]
         @@ objectBasic(section)
  ELSE IF Len(fields) > 0
  THEN [type |-> "fields", fields |-> fields] @@ objectBasic(section)
  ELSE IF Len(section.oneOf) > 0
  THEN [type |-> "oneOf", oneOf |-> parseTypeTexts(section.oneOf, <<>>)] @@ objectBasic(section)
  ELSE IF section.title = <<"InputFile">>
  THEN [type |-> "file"] @@ objectBasic(section)
  ELSE [type |-> "unknown"] @@ objectBasic(section)

RECURSIVE sectionMethods(_)
\* schema.methods after the loop over the sections.
sectionMethods(sections) ==
  IF sections = <<>> THEN <<>>
  ELSE (IF Head(sections).type = "Method"
        THEN <<methodOf(Head(sections),
                        applyFormattableSiblings(tableFields(Head(sections).table),
                                                 "method"))>>
        ELSE <<>>) \o sectionMethods(Tail(sections))

RECURSIVE sectionObjects(_)
\* schema.objects after the loop over the sections.
sectionObjects(sections) ==
  IF sections = <<>> THEN <<>>
  ELSE (IF Head(sections).type = "Object"
        THEN <<objectOf(Head(sections),
                        applyFormattableSiblings(tableFields(Head(sections).table),
                                                 "object"))>>
        ELSE <<>>) \o sectionObjects(Tail(sections))

\* Variant of currenciesObjects that also pushes an enum without values.
currenciesObjects_whenGiven(currencies) ==
  IF IsSome(currencies)
  THEN <<[name |-> <<"Currencies">>, anchor |-> <<"#", "currencies">>,
          type |-> "enum", values |-> currencies[1]]>>
  ELSE <<>>

\* The Currencies enum, pushed when currencies are given.
currenciesObjects(currencies) ==
  IF IsSome(currencies) /\ Len(currencies[1]) > 0
  THEN <<[name |-> <<"Currencies">>, anchor |-> <<"#", "currencies">>,
          type |-> "enum", values |-> currencies[1]]>>
  ELSE <<>>

\* A field of a hardcoded object.
hardcodedField(key, required, typeField) ==
  [key |-> key, required |-> required] @@ typeField

\* The objects of the "Making requests" section.
hardcodedObjects ==
  << [name |-> <<"APIResponseOk">>, anchor |-> <<"#", "making-requests">>,
      type |-> "fields",
      fields |-> << hardcodedField(<<"ok">>, TRUE, FieldBoolean(Some(TRUE))),
                    hardcodedField(<<"result">>, TRUE, BareString) >>],
     [name |-> <<"APIResponseError">>, anchor |-> <<"#", "making-requests">>,
      type |-> "fields",
      fields |-> << hardcodedField(<<"ok">>, TRUE, FieldBoolean(Some(FALSE))),
                    hardcodedField(<<"description">>, TRUE, BareString),
                    hardcodedField(<<"error_code">>, TRUE,
                                   FieldInteger(None, None, None, None)),
                    hardcodedField(<<"parameters">>, FALSE,
                                   FieldReference(<<"ResponseParameters">>,
                                                  <<"#", "responseparameters">>)) >>],
     [name |-> <<"APIResponse">>, anchor |-> <<"#", "making-requests">>,
      type |-> "oneOf",
      oneOf |-> << [key |-> <<>>] @@ FieldReference(<<"APIResponseOk">>,
                                                    <<"#", "making-requests">>),
                   [key |-> <<>>] @@ FieldReference(<<"APIResponseError">>,
                                                    <<"#", "making-requests">>) >>] >>

toCustomSchema(version, sections, currencies) ==
  [version |-> version,
   methods |-> sectionMethods(sections),
   objects |-> sectionObjects(sections) \o currenciesObjects(currencies)
                 \o hardcodedObjects]

(***************************************************************************)
(* toCustomSchema on one parsed section whose table is built row by row.   *)
(***************************************************************************)
MaxRows == 3

\* <a href=anchor>name</a> as a type cell or a part of one.
TypeLink(name, anchor) == <<A(<<name>>, <<"#", anchor>>)>>

\* The sections without their table: a method, a type, a markup type, a
\* union type and InputFile.
SectionHeads ==
  { [type |-> "Method", title |-> <<"sendMessage">>, anchor |-> <<"#", "sendmessage">>,
     description |-> Text(<<"On", " ", "success", ",", " ", "the", " ", "sent", " ">>)
                       \o TypeLink("Message", "message")
                       \o Text(<<" ", "is", " ", "returned", ".">>),
     table |-> <<>>, oneOf |-> <<>>],
    [type |-> "Object", title |-> <<"Message">>, anchor |-> <<"#", "message">>,
     description |-> <<>>, table |-> <<>>, oneOf |-> <<>>],
    [type |-> "Object", title |-> <<"InlineKeyboard", "Markup">>,
     anchor |-> <<"#", "inlinekeyboardmarkup">>,
     description |-> <<>>, table |-> <<>>, oneOf |-> <<>>],
    [type |-> "Object", title |-> <<"ChatMember">>, anchor |-> <<"#", "chatmember">>,
     description |-> <<>>, table |-> <<>>,
     oneOf |-> <<[text |-> Text(<<"ChatMemberOwner">>),
                  href |-> <<"#", "chatmemberowner">>]>>],
    [type |-> "Object", title |-> <<"InputFile">>, anchor |-> <<"#", "inputfile">>,
     description |-> <<>>, table |-> <<>>, oneOf |-> <<>>] }

\* The rows of a table, without the Required column: name, type cell and
\* description.
TableRows ==
  { [name |-> <<"text">>, type |-> TypeString, description |-> <<>>],
    [name |-> <<"text">>, type |-> TypeString,
     description |-> Text(<<"Text", " ", "after", " ", "entities", " ", "parsing">>)],
    [name |-> <<"text">>, type |-> TypeInteger, description |-> <<>>],
    [name |-> <<"text", "_parse_mode">>, type |-> TypeString, description |-> <<>>],
    [name |-> <<"text", "_entities">>,
     type |-> [text |-> <<ArrayOfPhrase, TypeLink("MessageEntity", "messageentity")>>,
               href |-> <<"#", "messageentity">>],
     description |-> <<>>],
    [name |-> <<"media">>,
     type |-> [text |-> <<TypeLink("InputFile", "inputfile"), OrPhrase,
                          Text(<<"String">>)>>,
               href |-> <<"#", "inputfile">>],
     description |-> <<>>],
    [name |-> <<"media">>,
     type |-> [text |-> <<ArrayOfPhrase, TypeLink("InputMediaAudio", "inputmediaaudio"),
                          Text(<<" ", "and", " ">>),
                          TypeLink("InputMediaPhoto", "inputmediaphoto")>>,
               href |-> <<"#", "inputmediaaudio">>],
     description |-> <<>>],
    [name |-> <<"options">>,
     type |-> [text |-> <<TypeLink("InputPollOption", "inputpolloption")>>,
               href |-> <<"#", "inputpolloption">>],
     description |-> <<>>] }

\* The TableRow of a section of the given type: parameter tables have a
\* Required column, field tables have none.
sectionRow(row, sectionType) ==
  [name |-> row.name, type |-> typeInfoOf(row.type),
   required |-> IF sectionType = "Method" THEN Some(<<"Yes">>) ELSE None,
   description |-> row.description]

\* The version the schema carries.
ApiVersion == [major |-> "9", minor |-> "0"]

\* currencies: not given, an empty list, or the codes of currencies.json.
CurrencyLists == {None, Some(<<>>), Some(<< <<"USD">> >>)}

InitSchema ==
  /\ docDescription = <<>>
  /\ docType = NoType
  /\ docRequired = None
  /\ docSection \in SectionHeads
  /\ docInput = NoInput
  /\ result = None
  /\ op = "input"

AddTableRow ==
  /\ op = "input"
  /\ Len(docSection.table) < MaxRows
  /\ \E row \in TableRows :
       docSection' = [docSection EXCEPT
                        !.table = Append(@, sectionRow(row, docSection.type))]
  /\ UNCHANGED <<docInput, docDescription, docType, docRequired, result, op>>

\* toCustomSchema(version, [section], currencies)
ToCustomSchema ==
  /\ op = "input"
  /\ \E currencies \in CurrencyLists :
       result' = toCustomSchema(ApiVersion, <<docSection>>, currencies)
  /\ op' = "toCustomSchema"
  /\ UNCHANGED <<docInput, docDescription, docType, docRequired, docSection>>

NextSchema == AddTableRow \/ ToCustomSchema

SpecSchema == InitSchema /\ [][NextSchema]_vars

RECURSIVE AcceptsFile(_)
\* A field that is a reference whose name starts with "Input" and is not
\* InputPollOption, an array of such a field, or a one_of with such a
\* variant, at any depth.
AcceptsFile(f) ==
  \/ /\ f.type = "reference"
     /\ startsWithInput(f.reference.name)
     /\ f.reference.name # <<"InputPollOption">>
  \/ (f.type = "array" /\ AcceptsFile(f.arrayOf))
  \/ (f.type = "one_of" /\ \E i \in 1..Len(f.variants) : AcceptsFile(f.variants[i]))

\* The fields of the objects of type "fields" of a schema, all together.
SchemaFields(schema) ==
  UNION { {schema.objects[i].fields[j] : j \in 1..Len(schema.objects[i].fields)} :
          i \in {k \in 1..Len(schema.objects) : schema.objects[k].type = "fields"} }

\* C19: maybeFileToSend(f) is true exactly when f is a reference whose name
\* starts with "Input" and is not InputPollOption, an array whose arrayOf
\* satisfies it, or a one_of with a satisfying variant; a Method's
\* hasMultipart is true exactly when one of its parameters satisfies it.
C19_MultipartWhenFileParameter ==
  op = "toCustomSchema" =>
    /\ \A m \in 1..Len(result.methods) :
         LET parameters == result.methods[m].parameters
         IN /\ result.methods[m].hasMultipart
                 <=> \E i \in 1..Len(parameters) : AcceptsFile(parameters[i])
            /\ \A i \in 1..Len(parameters) :
                 maybeFileToSend(parameters[i]) <=> AcceptsFile(parameters[i])
    /\ \A f \in SchemaFields(result) : maybeFileToSend(f) <=> AcceptsFile(f)

\* C19 witness: sendMessage with an InputPollOption parameter and an
\* "Array of InputMediaAudio and InputMediaPhoto" parameter has
\* hasMultipart true, by the second parameter only.
C19_Witness ==
  /\ op = "toCustomSchema"
  /\ docSection.type = "Method"
  /\ Len(docSection.table) = 2
  /\ Len(result.methods) = 1
  /\ result.methods[1].hasMultipart
  /\ result.methods[1].parameters[1].type = "reference"
  /\ result.methods[1].parameters[1].reference.name = <<"InputPollOption">>
  /\ ~maybeFileToSend(result.methods[1].parameters[1])
  /\ result.methods[1].parameters[2].type = "array"
  /\ result.methods[1].parameters[2].arrayOf.type = "one_of"

\* The fields toCustomSchema made of the table of the section: the
\* parameters of the method or the fields of the object.
SectionFields ==
  IF docSection.type = "Method" THEN result.methods[1].parameters
  ELSE IF docSection.table # <<>> THEN result.objects[1].fields
  ELSE <<>>

\* The table of the section holds a row named key followed by suffix.
HasSibling(key, suffix) ==
  \E j \in 1..Len(docSection.table) : docSection.table[j].name = key \o <<suffix>>

\* Field f carries semanticType "formattable".
IsFormattable(f) == "semanticType" \in DOMAIN f /\ f.semanticType = "formattable"

\* C20: after toCustomSchema a string field without a description-derived
\* semanticType is formattable exactly when its field list holds the key
\* <key>_parse_mode or, for method parameters only, <key>_entities; every
\* other field is as tableRowToField made it.
C20_FormattableBySiblings ==
  op = "toCustomSchema" =>
    \A i \in 1..Len(docSection.table) :
      LET made == tableRowToField(docSection.table[i])
          field == SectionFields[i]
      IN IF made.type = "string" /\ "semanticType" \notin DOMAIN made
         THEN IsFormattable(field)
                <=> \/ HasSibling(made.key, "_parse_mode")
                    \/ (docSection.type = "Method" /\ HasSibling(made.key, "_entities"))
         ELSE field = made

\* C20 witness: in the Message object the string field text with only a
\* text_entities sibling is not marked.
C20_Witness ==
  /\ op = "toCustomSchema"
  /\ docSection.type = "Object"
  /\ Len(docSection.table) = 2
  /\ docSection.table[1].name = <<"text">>
  /\ docSection.table[2].name = <<"text", "_entities">>
  /\ result.objects[1].fields[1].type = "string"
  /\ "semanticType" \notin DOMAIN result.objects[1].fields[1]

(***************************************************************************)
(* toCustomSchema on a list of parsed sections.                            *)
(***************************************************************************)
MaxSections == 3

\* The row `text: String` of a table.
TextRow == [name |-> <<"text">>, type |-> TypeString, description |-> <<>>]

\* The sections a page holds: those of SectionHeads, a method and a type
\* with a one-row table, and a section that is neither.
PageSections ==
  SectionHeads
    \cup { [h EXCEPT !.table = <<sectionRow(TextRow, h.type)>>] :
             h \in {g \in SectionHeads : g.title \in {<<"sendMessage">>, <<"Message">>}} }
    \cup {UnknownSection}

AddSection ==
  /\ op = "input"
  /\ Len(docInput.sections) < MaxSections
  /\ \E section \in PageSections :
       docInput' = [docInput EXCEPT !.sections = Append(@, section)]
  /\ UNCHANGED <<docDescription, docType, docRequired, docSection, result, op>>

\* The currencies argument is given.
GiveCurrencies ==
  /\ op = "input"
  /\ docInput.currencies = None
  /\ \E currencies \in CurrencyLists \ {None} :
       docInput' = [docInput EXCEPT !.currencies = currencies]
  /\ UNCHANGED <<docDescription, docType, docRequired, docSection, result, op>>

\* toCustomSchema(version, sections, currencies)
ToCustomSchemaOfSections ==
  /\ op = "input"
  /\ result' = toCustomSchema(ApiVersion, docInput.sections, docInput.currencies)
  /\ op' = "toCustomSchema"
  /\ UNCHANGED <<docDescription, docType, docRequired, docSection, docInput>>

NextSections == AddSection \/ GiveCurrencies \/ ToCustomSchemaOfSections

SpecSections == Init /\ [][NextSections]_vars

RECURSIVE TitlesOf(_, _)
\* The titles of the sections of the given type, in section order.
TitlesOf(sections, type) ==
  IF sections = <<>> THEN <<>>
  ELSE (IF Head(sections).type = type THEN <<Head(sections).title>> ELSE <<>>)
         \o TitlesOf(Tail(sections), type)

\* The names of a list of methods or objects.
NamesOf(list) == [i \in 1..Len(list) |-> list[i].name]

\* C21: the schema holds one method per Method section and one object per
\* Object section, in section order, then the Currencies enum exactly when
\* a non-empty currencies list was given, then APIResponseOk,
\* APIResponseError and APIResponse.
C21_SchemaOrder ==
  op = "toCustomSchema" =>
    /\ NamesOf(result.methods) = TitlesOf(docInput.sections, "Method")
    /\ NamesOf(result.objects)
         = TitlesOf(docInput.sections, "Object")
             \o (IF docInput.currencies \notin {None, Some(<<>>)}
                 THEN << <<"Currencies">> >> ELSE <<>>)
             \o << <<"APIResponseOk">>, <<"APIResponseError">>, <<"APIResponse">> >>
    /\ \A i \in 1..Len(result.objects) :
         result.objects[i].name = <<"Currencies">>
           => (result.objects[i].type = "enum"
                 /\ Some(result.objects[i].values) = docInput.currencies)

\* C21 witness: a method, an Unknown section and a type, with currencies.
C21_Witness ==
  /\ op = "toCustomSchema"
  /\ Len(docInput.sections) = 3
  /\ docInput.sections[1].type = "Method"
  /\ docInput.sections[2].type = "Unknown"
  /\ docInput.sections[3].type = "Object"
  /\ docInput.currencies = Some(<< <<"USD">> >>)
  /\ NamesOf(result.methods) = << <<"sendMessage">> >>
  /\ NamesOf(result.objects)
       = << docInput.sections[3].title, <<"Currencies">>, <<"APIResponseOk">>,
            <<"APIResponseError">>, <<"APIResponse">> >>

\* The patterns of the Default set, in list order.
DefaultPatterns == getPatterns("Default")

\* The patterns of the Default set that match sentence s somewhere.
MatchingPatterns(s) ==
  {k \in 1..Len(DefaultPatterns) : MatchPositions(DefaultPatterns[k], s) # {}}

\* Some exclude pattern of the set matches sentence s.
ExcludeMatches(s) == \E k \in MatchingPatterns(s) : DefaultPatterns[k].exclude

\* The first pattern in list order that matches s is not an exclude pattern.
Decides(s) ==
  /\ MatchingPatterns(s) # {}
  /\ ~DefaultPatterns[Min(MatchingPatterns(s))].exclude

\* The suffix of s after the leftmost window of the first matching pattern,
\* moved by the offset of the pattern and not before the start of s.
CaptureOf(s) ==
  LET p == DefaultPatterns[Min(MatchingPatterns(s))]
      i == Min(MatchPositions(p, s))
      start == i + Len(p.parts) + p.offset
  IN SubSeq(s, (IF start < 0 THEN 0 ELSE start) + 1, Len(s))

\* The capture of the first sentence among ss that satisfies Chosen, if any.
FirstCapture(ss, Chosen(_)) ==
  IF \E n \in 1..Len(ss) : Chosen(ss[n])
  THEN Some(CaptureOf(ss[Min({n \in 1..Len(ss) : Chosen(ss[n])})]))
  ELSE None

\* No exclude pattern matches s and some pattern does.
DecidesUnexcluded(s) == Decides(s) /\ ~ExcludeMatches(s)

\* C22 as stated: a sentence that any exclude pattern matches yields no
\* capture, also when a non-exclude pattern listed earlier matches it.
C22_ExcludeDiscardsEarlierMatch ==
  op = "matchPattern" => result = FirstCapture(Sentences, DecidesUnexcluded)

\* C22 amended: a sentence whose first matching pattern in list order is
\* an exclude pattern yields no capture and matching moves on to the next
\* sentence; a sentence that a non-exclude pattern listed earlier matches
\* yields the capture of that pattern.
C22_ExcludeSkipsUnlessEarlierMatch ==
  op = "matchPattern" =>
    \A n \in 1..Len(Sentences) :
      (\A m \in 1..(n - 1) : ~Decides(Sentences[m])) =>
        /\ (ExcludeMatches(Sentences[n]) /\ ~Decides(Sentences[n])
              => result = FirstCapture(SubSeq(Sentences, n + 1, Len(Sentences)), Decides))
        /\ (ExcludeMatches(Sentences[n]) /\ Decides(Sentences[n])
              => result = Some(CaptureOf(Sentences[n])))

\* C22 witness: "Defaults to 7 defaults to" yields the capture that
\* follows "Defaults to" although the exclude pattern matches too.
C22_Witness ==
  /\ op = "matchPattern"
  /\ docDescription = << Text(<<"Defaults", " ", "to", " ">>), Text(<<"7", " ">>),
                          Text(<<"defaults", " ", "to", " ">>) >>
  /\ result # None
  /\ Len(result[1]) = 3
  /\ result[1][1].inner = <<"7">>

\* C23: the result of matchPattern is the capture of the first sentence
\* whose first matching pattern in list order is not an exclude pattern,
\* taken after the leftmost window of that pattern; later sentences are not
\* examined, even when the capture is empty; without such a sentence the
\* result is undefined.
C23_FirstSentenceFirstPattern ==
  op = "matchPattern" => result = FirstCapture(Sentences, Decides)

\* C23 witness: "Defaults to . must be HTML": the first sentence decides
\* with an empty capture and the second is not examined.
C23_Witness ==
  /\ op = "matchPattern"
  /\ Len(Sentences) = 2
  /\ Decides(Sentences[1]) /\ Decides(Sentences[2])
  /\ CaptureOf(Sentences[2]) # <<>>
  /\ result = Some(<<>>)

\* C27: a sentence that holds 'defaults' 'to' and not 'Defaults' 'to'
\* gives no capture, also when it holds 'must be <italic>' or 'always
\* <quoted>', and the non-excluded 'defaults to' pattern gives no capture:
\* a capture comes from a sentence free of lowercase 'defaults to' or
\* holding 'Defaults to', by the first, fourth or fifth pattern.
C27_LowercaseDefaultsExcluded ==
  op = "matchPattern" =>
    LET Barred(s) == HoldsWords(s, <<"defaults", "to">>) /\ ~HoldsWords(s, <<"Defaults", "to">>)
    IN /\ ((\A n \in 1..Len(Sentences) : Barred(Sentences[n])) => result = None)
       /\ (result # None =>
             \E n \in 1..Len(Sentences) :
               /\ ~Barred(Sentences[n])
               /\ \A m \in 1..(n - 1) : Barred(Sentences[m]) \/ MatchingPatterns(Sentences[m]) = {}
               /\ \E k \in {1, 4, 5} :
                    /\ MatchPositions(DefaultPatterns[k], Sentences[n]) # {}
                    /\ result = Some(CaptureOf(Sentences[n])))

\* C27 witness: "must be HTML defaults to": the sentence holds 'must be
\* <italic>' and lowercase 'defaults to', and nothing is captured.
C27_Witness ==
  /\ op = "matchPattern"
  /\ Len(Sentences) = 1
  /\ HoldsWords(Sentences[1], <<"defaults", "to">>)
  /\ MatchPositions(DefaultPatterns[4], Sentences[1]) # {}
  /\ result = None

\* A text node that holds one quote character.
QuotePhrase == Text(<<"\"">>)

\* <li>x</li> followed by the word c.
ItemPhrase == <<El("li", <<"x">>), Chr("c"), Chr(" ")>>

\* The last character of the description is a closing quote: the quote
\* characters before it are odd in number.
ClosesQuote ==
  /\ Len(docDescription) >= 2
  /\ docDescription[Len(docDescription)] = QuotePhrase
  /\ Cardinality({i \in 1..Len(docDescription) : docDescription[i] = QuotePhrase}) % 2 = 0

\* The index of the opening quote that the last character closes.
OpeningQuote ==
  CHOOSE i \in 1..(Len(docDescription) - 1) :
    /\ docDescription[i] = QuotePhrase
    /\ \A j \in (i + 1)..(Len(docDescription) - 1) : docDescription[j] # QuotePhrase

RECURSIVE InnersOf(_)
\* The inner texts of the Parts that a run of phrases inside a quote
\* appends to the sentence under construction.
InnersOf(phrases) ==
  IF phrases = <<>> THEN <<>>
  ELSE (IF Head(phrases) = Text(<<".", " ">>) THEN <<>>
        ELSE IF Head(phrases) = ItemPhrase THEN << <<"c">> >>
        ELSE << Head(phrases)[1].text >>) \o InnersOf(Tail(phrases))

\* The Parts of the sentence under construction when the quote opens.
PartsBeforeQuote ==
  LET before == parseDescriptionToSentences(
                  Concat(SubSeq(docDescription, 1, OpeningQuote - 1)))
  IN IF before = <<>> \/ docDescription[OpeningQuote - 1] = Text(<<".", " ">>)
     THEN <<>>
     ELSE before[Len(before)]

\* C24: when a closing quote is processed, the Parts appended since the
\* matching opening quote are replaced by one Part with hasQuotes, kind
\* word and their inner texts joined by single spaces, and the Parts before
\* the opening quote stay as they were.
C24_QuoteCollapsesItsParts ==
  (op = "collapseQuotedParts" /\ ClosesQuote) =>
    LET since == SubSeq(docDescription, OpeningQuote + 1, Len(docDescription) - 1)
        last == result[Len(result)]
        quoted == [inner |-> JoinSpace(InnersOf(since)), hasQuotes |-> TRUE,
                   kind |-> "word", href |-> <<>>]
    IN /\ last[Len(last)] = quoted
       /\ (\A i \in 1..Len(since) : since[i] # ItemPhrase)
            => last = (IF OpeningQuote = 1 THEN <<>> ELSE PartsBeforeQuote) \o <<quoted>>

\* The Parts extractTypeFromParts is given.
TypeParts == firstSentence(Sentences)

\* The text of a Part starts with an uppercase letter.
UppercaseLed(part) == part.inner # <<>> /\ UpperLed(part.inner[1])

\* The text with its last character dropped if it ends in "es".
PluralStripped(text) ==
  IF text # <<>> /\ text[Len(text)] = "es"
  THEN SubSeq(text, 1, Len(text) - 1) \o <<"e">>
  ELSE text

\* The single node of a Part.
SingleOf(part) == [kind |-> "single", name |-> PluralStripped(part.inner), href |-> part.href]

RECURSIVE TypeNames(_)
\* One single node per uppercase-led Part other than 'otherwise', in order.
TypeNames(parts) ==
  IF parts = <<>> THEN <<>>
  ELSE (IF UppercaseLed(Head(parts)) /\ Head(parts).inner # <<"otherwise">>
        THEN <<SingleOf(Head(parts))>> ELSE <<>>) \o TypeNames(Tail(parts))

\* Some Part has the text 'otherwise'.
HasOtherwise(parts) == \E i \in 1..Len(parts) : parts[i].inner = <<"otherwise">>

\* C25: with a Part 'otherwise', extractTypeFromParts returns an or node
\* whose variants are the single nodes of the uppercase-led Parts other than
\* 'otherwise', in order, with plural-stripped names and the hrefs of the
\* Parts; it returns undefined when there is no such Part.
C25_OtherwiseGivesOr ==
  (op = "extractTypeFromParts" /\ HasOtherwise(TypeParts)) =>
    IF TypeNames(TypeParts) = <<>> THEN result = None
    ELSE result = Some([kind |-> "or", variants |-> TypeNames(TypeParts)])

\* C25 witness: "True otherwise Messages" gives or(True, Message).
C25_Witness ==
  /\ op = "extractTypeFromParts"
  /\ HasOtherwise(TypeParts)
  /\ result = Some([kind |-> "or",
                     variants |-> << [kind |-> "single", name |-> <<"True">>, href |-> <<>>],
                                     [kind |-> "single", name |-> <<"Messag", "e">>,
                                      href |-> <<"#", "message">>] >>])

\* Part number pos is right after the words w1 w2 w3.
PrecededBy(parts, pos, w1, w2, w3) ==
  /\ pos >= 4
  /\ parts[pos - 3].inner = <<w1>>
  /\ parts[pos - 2].inner = <<w2>>
  /\ parts[pos - 1].inner = <<w3>>

RECURSIVE TypeOf(_)
\* The type of Parts without 'otherwise', by the first uppercase-led Part.
TypeOf(parts) ==
  IF \A i \in 1..Len(parts) : ~UppercaseLed(parts[i]) THEN None
  ELSE LET pos == CHOOSE i \in 1..Len(parts) :
                    UppercaseLed(parts[i]) /\ \A j \in 1..(i - 1) : ~UppercaseLed(parts[j])
           after == SubSeq(parts, pos + 1, Len(parts))
       IN IF PluralStripped(parts[pos].inner) = <<"Array">>
          THEN LET inner == TypeOf(IF after # <<>> /\ after[1].inner = <<"of">>
                                   THEN Tail(after) ELSE after)
               IN IF inner = None THEN None
                  ELSE Some([kind |-> "array", inner |-> inner[1]])
          ELSE IF \/ PrecededBy(parts, pos, "an", "array", "of")
                  \/ PrecededBy(parts, pos, "a", "list", "of")
                  \/ PrecededBy(parts, pos, "the", "list", "of")
          THEN Some([kind |-> "array", inner |-> SingleOf(parts[pos])])
          ELSE Some(SingleOf(parts[pos]))

\* C26: without a Part 'otherwise', the result follows the first
\* uppercase-led Part P: array(T) for 'Array', T being the result for the
\* Parts after P less one leading 'of' (undefined when T is); array(single(P))
\* when P follows 'an array of', 'a list of' or 'the list of'; single(P)
\* otherwise; undefined without an uppercase-led Part.
C26_FirstUppercasePart ==
  (op = "extractTypeFromParts" /\ ~HasOtherwise(TypeParts)) => result = TypeOf(TypeParts)

\* C26 witness: "Array of the list of Messages" gives array(array(Message)).
C26_Witness ==
  /\ op = "extractTypeFromParts"
  /\ ~HasOtherwise(TypeParts)
  /\ Len(docDescription) = 3
  /\ docDescription[2] = Text(<<"the", " ", "list", " ", "of", " ">>)
  /\ result = Some([kind |-> "array",
                     inner |-> [kind |-> "array",
                                inner |-> [kind |-> "single", name |-> <<"Messag", "e">>,
                                           href |-> <<"#", "message">>]]])

\* Sentence s matches a OneOf pattern and holds a value-like Part.
GivesValues(s) == HoldsOneOfPhrase(s) /\ ValuesOf(s) # <<>>

\* C28: extractOneOf returns the deduplicated values of all value-like
\* Parts of the first sentence that matches a OneOf pattern and holds a
\* value-like Part, those before the trigger phrase included, whatever the
\* pattern and its offset; it returns undefined without such a sentence.
C28_OneOfFromWholeSentence ==
  op = "extractOneOf" =>
    IF \E n \in 1..Len(Sentences) : GivesValues(Sentences[n])
    THEN result
           = Some(Dedup(ValuesOf(
               Sentences[Min({n \in 1..Len(Sentences) : GivesValues(Sentences[n])})])))
    ELSE result = None

\* C28 witness: ""a", x one of 6": the quoted value before the trigger
\* phrase is returned with the one after it.
C28_Witness ==
  /\ op = "extractOneOf"
  /\ docDescription = << Text(<<"\"", "a", "\"", ",", " ">>), Text(<<"x", " ">>),
                          Text(<<"one", " ", "of", " ">>), Text(<<"6", " ">>) >>
  /\ result = Some(<< <<"a">>, <<"6">> >>)

\* The text t holds, from position i on, the words ws separated by single
\* spaces, compared without regard to case.
WordsAt(t, i, ws) ==
  /\ i + 2 * Len(ws) - 2 <= Len(t)
  /\ \A j \in 1..Len(ws) : ToLowerSym(t[i + 2 * j - 2]) = ToLowerSym(ws[j])
  /\ \A j \in 1..(Len(ws) - 1) : t[i + 2 * j - 1] = " "

\* The text t holds a clause 'Returns [an|the] lit' or 'lit is returned'.
ClauseNames(t, lit) ==
  \E i \in 1..Len(t) :
    \/ WordsAt(t, i, <<"Returns", lit>>)
    \/ WordsAt(t, i, <<"Returns", "an", lit>>)
    \/ WordsAt(t, i, <<"Returns", "the", lit>>)
    \/ WordsAt(t, i, <<lit, "is", "returned">>)

\* C29: when the text has no 'otherwise' and holds a boolean clause, the
\* result is a boolean whose const is the literal the clause names: true
\* for True, false for False.
C29_BooleanConstIsNamedLiteral ==
  LET t == DocText(Concat(docDescription))
  IN (/\ op = "resolveReturnType"
      /\ \A i \in 1..Len(t) : t[i] # "otherwise"
      /\ (ClauseNames(t, "True") \/ ClauseNames(t, "False"))) =>
       /\ result.type = "boolean"
       /\ (~ClauseNames(t, "False") => result.const = Some(TRUE))
       /\ (~ClauseNames(t, "True") => result.const = Some(FALSE))

(***************************************************************************)
(* SpecCell: parseTypeText on a type cell built from array prefixes,       *)
(* " or " and keywords, under a description that gives a top-level         *)
(* Integer, Float or String its facets.                                    *)
(***************************************************************************)
MaxCellPhrases == 3

CellPhrases ==
  { ArrayOfPhrase,
    OrPhrase,
    Text(<<"Integer">>),
    Text(<<"Float">>),
    Text(<<"String">>),
    Text(<<"True">>) }

\* Descriptions that give min, max and default; minLen, maxLen and default;
\* enum; const and default.
RangeDescription ==
  Text(<<"Values", " ", "between", " ", "1", "-", "5", " ",
         "Defaults", " ", "to", " ", "3">>)

LengthDescription ==
  Text(<<"1", "-", "5", " ", "characters", " ", "Defaults", " ", "to", " ", "x">>)

OneOfDescription ==
  Text(<<"one", " ", "of", " ", "\"", "7", "\"", ",", " ", "\"", "8", "\"">>)

MustBeDescription == Text(<<"must", " ", "be", " ">>) \o <<El("em", <<"x">>)>>

CellDescriptions ==
  {RangeDescription, LengthDescription, OneOfDescription, MustBeDescription}

AddCellPhrase ==
  /\ op = "input"
  /\ Len(docType.text) < MaxCellPhrases
  /\ \E p \in CellPhrases : docType' = [docType EXCEPT !.text = Append(@, p)]
  /\ UNCHANGED <<docInput, docSection, docDescription, docRequired, result, op>>

DescribeCell ==
  /\ op = "input"
  /\ docDescription = <<>>
  /\ \E d \in CellDescriptions : docDescription' = <<d>>
  /\ UNCHANGED <<docInput, docSection, docType, docRequired, result, op>>

\* parseTypeText(typeInfo, description)
ParseCell ==
  /\ op = "input"
  /\ result' = parseTypeText(typeInfoOf(docType), Concat(docDescription))
  /\ op' = "parseTypeText"
  /\ UNCHANGED <<docInput, docSection, docDescription, docType, docRequired>>

NextCell == AddCellPhrase \/ DescribeCell \/ ParseCell

SpecCell == Init /\ [][NextCell]_vars

RECURSIVE MembersOf(_)
\* The element Field of an array and the variants of a one_of, at any depth.
MembersOf(f) ==
  IF f.type = "array" THEN {f.arrayOf} \cup MembersOf(f.arrayOf)
  ELSE IF f.type = "one_of"
  THEN UNION {{f.variants[i]} \cup MembersOf(f.variants[i]) :
                i \in 1..Len(f.variants)}
  ELSE {}

DescriptionFacets == {"min", "max", "default", "enum", "minLen", "maxLen"}

\* C30 as stated: whatever the description, no element of an array and no
\* variant of a one_of carries a defined min, max, default, enum, const,
\* minLen or maxLen.
C30_MembersCarryNoFacet ==
  op = "parseTypeText" =>
    \A m \in MembersOf(result) :
      \A name \in DescriptionFacets \cup {"const"} : ~HasFacet(m, name)

\* C30, amended: whatever the description, no element of an array and no
\* variant of a one_of carries a defined min, max, default, enum, minLen or
\* maxLen, and the only const a member carries is the boolean const of a
\* member whose type name is True or False.
C30_MembersCarryNoDescriptionFacet ==
  op = "parseTypeText" =>
    \A m \in MembersOf(result) :
      /\ \A name \in DescriptionFacets : ~HasFacet(m, name)
      /\ HasFacet(m, "const") => m = FieldBoolean(m.const)

\* A described cell 'Array of Integer' or 'Integer or String' whose
\* description gives a top-level Integer or String its facets.
C30_Witness ==
  /\ op = "parseTypeText"
  /\ docDescription \in {<<RangeDescription>>, <<MustBeDescription>>}
  /\ \E m \in MembersOf(result) : m.type \in {"integer", "string"}
  /\ \E name \in DescriptionFacets \cup {"const"} :
       HasFacet(parseTypeText([text |-> Text(<<"Integer">>), href |-> None],
                              Concat(docDescription)), name)
         \/ HasFacet(parseTypeText([text |-> Text(<<"String">>), href |-> None],
                                   Concat(docDescription)), name)

====
